---- MODULE Spec2Model ----
(***************************************************************************)
(* A model of the Die-or-Dare rules engine (die_or_dare.py): deck          *)
(* building, the session loop of main(), the duel state machine and the    *)
(* shout resolution of Game.process_shout.                                 *)
(***************************************************************************)
EXTENDS Integers, Sequences, FiniteSets, TLC

\* ------------------------------------------------------------------------
\* Program constants (module `constants`)
\* ------------------------------------------------------------------------
DECK_PER_PILE == 9
CARD_PER_DECK == 3
REQUIRED_POINTS == 5
MAX_DIE == 3
MAX_DRAW == 1
\* len(constants.Rank): the ranks A..K carry the values 1..13
NUM_RANKS == 13

\* ------------------------------------------------------------------------
\* Bounds of the model
\* ------------------------------------------------------------------------
\* DONE is offered by the players only while fewer than MaxDone DONEs have
\* been counted in the game (the done-counters are unbounded in the program).
MaxDone == 1
\* Longest shout list handed to Game.process_shout.
MaxShouts == 2
\* Spec follows the session through its first MaxDuels duels, the players
\* free to declare anything in each of them.
MaxDuels == 3
\* SpecLate follows the session through its first LateDuels duels; the
\* players only dare until the last LoudDuels of them.
LateDuels == 6
LoudDuels == 3
\* SpecLong follows the session through all the duels of a game, the players
\* shouting at most LongShouts times in a round, and nothing but DIE.
LongShouts == 1
\* SpecCaps follows the session through its first CapDuels duels, player-red
\* spending its die allowance in the first MAX_DIE of them.
CapDuels == 5
\* SpecAuto follows a session of a human and an AntiDie computer player
\* through its first AutoDuels duels.
AutoDuels == 4

\* SpecDone follows such a session through its first DoneDuels duels.
DoneDuels == 5

None == 0 - 1
NoOne == "None"
PLAYER_RED == "red"
PLAYER_BLACK == "black"
Players == {PLAYER_RED, PLAYER_BLACK}
Other(p) == IF p = PLAYER_RED THEN PLAYER_BLACK ELSE PLAYER_RED

DeckIndexes == 0 .. (DECK_PER_PILE - 1)
Slots == 1 .. CARD_PER_DECK

\* ------------------------------------------------------------------------
\* Cards and piles
\* ------------------------------------------------------------------------
\* A pile lists the joker first, then both suits of the colour, each in rank
\* order.  Card k of the pile: k = 0 is the joker, 1..13 the first suit,
\* 14..26 the second suit.  A joker has no value until a strategy sets it
\* (value 0 stands for Python's None).
PileCard(k) ==
    IF k = 0
    THEN [suit |-> 0, rank |-> 0, value |-> 0, open |-> FALSE]
    ELSE [suit |-> IF k <= NUM_RANKS THEN 1 ELSE 2,
          rank |-> IF k <= NUM_RANKS THEN k ELSE k - NUM_RANKS,
          value |-> IF k <= NUM_RANKS THEN k ELSE k - NUM_RANKS,
          open |-> FALSE]

PileSize == 1 + 2 * NUM_RANKS

_is_joker(card) == card.rank = 0

open_up(card) == [card EXCEPT !.open = TRUE]

\* ------------------------------------------------------------------------
\* Joker value strategies (operate on the 3-card list of a fresh deck)
\* ------------------------------------------------------------------------
HasJoker(cards) == \E i \in DOMAIN cards : _is_joker(cards[i])

\* the index found by a loop that keeps the last joker seen; 0 when none
JokerIndex(cards) ==
    IF HasJoker(cards)
    THEN CHOOSE i \in DOMAIN cards :
            /\ _is_joker(cards[i])
            /\ \A j \in DOMAIN cards : _is_joker(cards[j]) => j <= i
    ELSE 0

\* the index of the first joker (next(card for card in cards if joker))
FirstJokerIndex(cards) ==
    CHOOSE i \in DOMAIN cards :
        /\ _is_joker(cards[i])
        /\ \A j \in DOMAIN cards : _is_joker(cards[j]) => i <= j

NonJokerIndexes(cards) == {i \in DOMAIN cards : ~_is_joker(cards[i])}

\* Python's max(..., key=value) / min(...): the first extremal element
FirstMaxIndex(cards, S) ==
    CHOOSE i \in S :
        /\ \A j \in S : cards[j].value <= cards[i].value
        /\ \A j \in S : cards[j].value = cards[i].value => i <= j

FirstMinIndex(cards, S) ==
    CHOOSE i \in S :
        /\ \A j \in S : cards[j].value >= cards[i].value
        /\ \A j \in S : cards[j].value = cards[i].value => i <= j

SetJokerValue(cards, v) ==
    [cards EXCEPT ![FirstJokerIndex(cards)].value = v]

Thirteen(cards) ==
    IF HasJoker(cards) THEN SetJokerValue(cards, NUM_RANKS) ELSE cards

SameAsMax(cards) ==
    IF HasJoker(cards)
    THEN LET biggest == cards[FirstMaxIndex(cards, NonJokerIndexes(cards))]
         IN  SetJokerValue(cards, biggest.value)
    ELSE cards

RandomNumber(cards, r) ==
    IF HasJoker(cards) THEN SetJokerValue(cards, r) ELSE cards

\* variant: the value just below the biggest, taken or not
NextBiggest_BelowMax(cards) ==
    IF HasJoker(cards)
    THEN LET biggest == cards[FirstMaxIndex(cards, NonJokerIndexes(cards))]
         IN  SetJokerValue(cards, IF biggest.value = 1 THEN 1
                                  ELSE biggest.value - 1)
    ELSE cards

\* variant: always two below the biggest
NextBiggest_TwoBelowMax(cards) ==
    IF HasJoker(cards)
    THEN LET biggest == cards[FirstMaxIndex(cards, NonJokerIndexes(cards))]
         IN  SetJokerValue(cards, IF biggest.value <= 2 THEN 1
                                  ELSE biggest.value - 2)
    ELSE cards

\* variant: the test whether the value below the biggest is taken is reversed
NextBiggest_TestReversed(cards) ==
    IF HasJoker(cards)
    THEN LET biggest  == cards[FirstMaxIndex(cards, NonJokerIndexes(cards))]
             smallest == cards[FirstMinIndex(cards, NonJokerIndexes(cards))]
         IN  IF biggest.value = 1
             THEN SetJokerValue(cards, 1)
             ELSE IF biggest.value = 2
             THEN SetJokerValue(cards, 3 - smallest.value)
             ELSE IF smallest.value = biggest.value - 1
             THEN SetJokerValue(cards, biggest.value - 1)
             ELSE SetJokerValue(cards, biggest.value - 2)
    ELSE cards

\* NextBiggest.apply
NextBiggest(cards) ==
    IF HasJoker(cards)
    THEN LET biggest  == cards[FirstMaxIndex(cards, NonJokerIndexes(cards))]
             smallest == cards[FirstMinIndex(cards, NonJokerIndexes(cards))]
         IN  IF biggest.value = 1
             THEN SetJokerValue(cards, 1)
             ELSE IF biggest.value = 2
             THEN SetJokerValue(cards, 3 - smallest.value)
             ELSE IF smallest.value = biggest.value - 1
             THEN SetJokerValue(cards, biggest.value - 2)
             ELSE SetJokerValue(cards, biggest.value - 1)
    ELSE cards

JokerValueStrategies == {"Thirteen", "SameAsMax", "RandomNumber", "NextBiggest"}

\* r is the draw of random.choice, used by RandomNumber only
ApplyJokerValueStrategy(strategy, cards, r) ==
    CASE strategy = "Thirteen" -> Thirteen(cards)
      [] strategy = "SameAsMax" -> SameAsMax(cards)
      [] strategy = "RandomNumber" -> RandomNumber(cards, r)
      [] OTHER -> NextBiggest(cards)

\* ------------------------------------------------------------------------
\* Joker position strategies
\* ------------------------------------------------------------------------
Swap(cards, i, j) == [cards EXCEPT ![i] = cards[j], ![j] = cards[i]]

\* cards[0], cards[index] = cards[index], cards[0]
to_delegate(cards, index) == Swap(cards, 1, index)

biggest_to_delegate(cards) ==
    to_delegate(cards, FirstMaxIndex(cards, DOMAIN cards))

JokerFirst(cards) ==
    IF HasJoker(cards)
    THEN LET joker_index  == JokerIndex(cards)
             bigger_index == FirstMaxIndex(cards, NonJokerIndexes(cards))
         IN  IF cards[joker_index].value >= cards[bigger_index].value
             THEN to_delegate(cards, joker_index)
             ELSE to_delegate(cards, bigger_index)
    ELSE biggest_to_delegate(cards)

\* the last line swaps cards[-1] with cards[joker_index], where joker_index
\* is the joker's place before to_delegate moved anything
JokerLast(cards) ==
    IF HasJoker(cards)
    THEN LET joker_index  == JokerIndex(cards)
             bigger_index == FirstMaxIndex(cards, NonJokerIndexes(cards))
         IN  IF cards[joker_index].value > cards[bigger_index].value
             THEN to_delegate(cards, joker_index)
             ELSE Swap(to_delegate(cards, bigger_index),
                       Len(cards), joker_index)
    ELSE biggest_to_delegate(cards)

JokerAnywhere(cards) == biggest_to_delegate(cards)

\* variant: the joker wins ties, as in JokerFirst
JokerNotFirst_JokerWinsTies(cards) == JokerFirst(cards)

JokerNotFirst(cards) ==
    IF HasJoker(cards)
    THEN LET joker_index  == JokerIndex(cards)
             bigger_index == FirstMaxIndex(cards, NonJokerIndexes(cards))
         IN  IF cards[joker_index].value > cards[bigger_index].value
             THEN to_delegate(cards, joker_index)
             ELSE to_delegate(cards, bigger_index)
    ELSE biggest_to_delegate(cards)

JokerPositionStrategies ==
    {"JokerFirst", "JokerLast", "JokerAnywhere", "JokerNotFirst"}

ApplyJokerPositionStrategy(strategy, cards) ==
    CASE strategy = "JokerFirst" -> JokerFirst(cards)
      [] strategy = "JokerLast" -> JokerLast(cards)
      [] strategy = "JokerAnywhere" -> JokerAnywhere(cards)
      [] OTHER -> JokerNotFirst(cards)

\* ------------------------------------------------------------------------
\* Decks
\* ------------------------------------------------------------------------
UNDISCLOSED == "UNDISCLOSED"
IN_DUEL == "IN_DUEL"
DECK_FINISHED == "DECK_FINISHED"

\* Deck.__init__
Deck(cards, index) ==
    [cards |-> cards, state |-> UNDISCLOSED, index |-> index,
     opponent_deck_index |-> None, card_to_open_index |-> None]

is_undisclosed(deck) == deck.state = UNDISCLOSED
is_in_duel(deck) == deck.state = IN_DUEL
delegate_value(deck) == deck.cards[1].value

\* Player.build_decks.  `pile` is the shuffled pile (a sequence of pile-card
\* numbers); pile.pop() deals from its end.  r is RandomNumber's draw.
DealtCards(pile, j) ==
    [k \in Slots |-> PileCard(pile[Len(pile) - CARD_PER_DECK * j - (k - 1)])]

StrategiesApplied(pile, j, value_strategy, position_strategy, r) ==
    ApplyJokerPositionStrategy(position_strategy,
        ApplyJokerValueStrategy(value_strategy, DealtCards(pile, j), r))

\* list.sort is stable: deck j goes behind every deck with a smaller
\* delegate value and behind the earlier decks with the same one
SortedPosition(prev, j) ==
    Cardinality({k \in DeckIndexes :
        \/ prev[k][1].value < prev[j][1].value
        \/ prev[k][1].value = prev[j][1].value /\ k < j})

\* variant: the decks keep the order in which they were dealt
build_decks_Unsorted(pile, value_strategy, position_strategy, r) ==
    [index \in DeckIndexes |->
        Deck([StrategiesApplied(pile, index, value_strategy,
                                position_strategy, r)
                 EXCEPT ![1] = open_up(@)], index)]

\* decks_previous.sort(...) and the Deck objects made of its entries
sorted_decks(prev) ==
    LET at(index) == CHOOSE j \in DeckIndexes : SortedPosition(prev, j) = index
    IN  [index \in DeckIndexes |->
            Deck([prev[at(index)] EXCEPT ![1] = open_up(@)], index)]

\* decks_previous is computed once, then sorted
build_decks(pile, value_strategy, position_strategy, r) ==
    CHOOSE built \in
        {sorted_decks(decks_previous) :
            decks_previous \in
                {[j \in DeckIndexes |->
                     StrategiesApplied(pile, j, value_strategy,
                                       position_strategy, r)]}} : TRUE

\* ------------------------------------------------------------------------
\* The deals of the model: the shuffled piles and the joker strategies of
\* both players (chosen once per game, before Game.build_decks)
\* ------------------------------------------------------------------------
\* random.shuffle leaves the pile in any order; these are the two orders the
\* model deals from (pile.pop() takes the last number first)
RedShuffle ==
    << 22, 20, 21, 18, 19,  9, 17,  5, 25,  8,  7,  2, 10,  1,
        6, 15, 16, 24, 13, 11, 23,  0,  3,  4, 14, 26, 12 >>

BlackShuffle ==
    << 26, 14, 16, 10,  6, 21,  3,  7, 23,  8, 19,  4, 18, 15,
       11, 22,  5,  9,  1, 24, 12,  2, 17, 13,  0, 25, 20 >>

Deals ==
    { [red_pile |-> RedShuffle, black_pile |-> BlackShuffle,
       red_value |-> "Thirteen", red_position |-> "JokerAnywhere",
       black_value |-> "SameAsMax", black_position |-> "JokerFirst",
       red_r |-> 1, black_r |-> 1] }

\* ------------------------------------------------------------------------
\* State
\* ------------------------------------------------------------------------
VARIABLES
    decks,      \* decks[p][i]: deck i of player p (Player.decks)
    player,     \* player[p]: the fields of Player p
    duels,      \* duels[i]: the nine Duel objects of Game.duels
    game,       \* the fields of Game
    pc,         \* where main()'s session loop stands
    heard       \* heard[p]: red_shout_heard / black_shout_heard of the
                \* last Game.process_shout

vars == <<decks, player, duels, game, pc, heard>>

\* DuelState
UNSTARTED == "UNSTARTED"
ONGOING == "ONGOING"
DIED == "DIED"
DRAWN == "DRAWN"
FINISHED == "FINISHED"
ABORTED_BY_CORRECT_DONE == "ABORTED_BY_CORRECT_DONE"
ABORTED_BY_WRONG_CHOICE == "ABORTED_BY_WRONG_CHOICE"

\* Action
IDLE == "IDLE"
DARE == "DARE"
DIE == "DIE"
DONE == "DONE"
DRAW == "DRAW"
Actions == {IDLE, DARE, DIE, DONE, DRAW}
NoAction == "None"

\* GameResult
GAME_DONE == "GAME_DONE"
GAME_FINISHED == "GAME_FINISHED"

\* Player.__init__
NewPlayer ==
    [points |-> 0, num_shout_die |-> 0, num_shout_done |-> 0,
     num_shout_draw |-> 0, deck_in_duel |-> None,
     deck_in_duel_index |-> None, recent_action |-> NoAction]

\* variant: player-red is the offense of every duel
NewDuel_RedOffense(index) ==
    [index |-> index, round_ |-> 1, over |-> FALSE,
     winner |-> NoOne, loser |-> NoOne, state |-> UNSTARTED,
     offense |-> PLAYER_RED, defense |-> PLAYER_BLACK]

\* Duel.__init__: the roles follow the parity of the index
NewDuel(index) ==
    [index |-> index, round_ |-> 1, over |-> FALSE,
     winner |-> NoOne, loser |-> NoOne, state |-> UNSTARTED,
     offense |-> IF index % 2 = 0 THEN PLAYER_RED ELSE PLAYER_BLACK,
     defense |-> IF index % 2 = 0 THEN PLAYER_BLACK ELSE PLAYER_RED]

\* Game.__init__
NewGame ==
    [over |-> FALSE, result |-> NoOne, winner |-> NoOne, loser |-> NoOne,
     duel_index |-> 0 - 1]

\* main() up to the session loop: Game(...), distribute_piles, build_decks
Init ==
    \E d \in Deals :
        /\ decks = [p \in Players |->
              IF p = PLAYER_RED
              THEN build_decks(d.red_pile, d.red_value, d.red_position, d.red_r)
              ELSE build_decks(d.black_pile, d.black_value, d.black_position,
                               d.black_r)]
        /\ player = [p \in Players |-> NewPlayer]
        /\ duels = [i \in DeckIndexes |-> NewDuel(i)]
        /\ game = NewGame
        /\ pc = "to_next_duel"
        /\ heard = [p \in Players |-> FALSE]

\* ------------------------------------------------------------------------
\* Helpers over a whole program state S = [decks, player, duels, game]
\* ------------------------------------------------------------------------
Here == [decks |-> decks, player |-> player, duels |-> duels, game |-> game]

\* Game.duel_ongoing
duel_ongoing(S) == S.duels[S.game.duel_index]

\* Duel.players
duel_players(duel) == <<duel.offense, duel.defense>>

\* sum(card._value for card in player.deck_in_duel)
SumInDuel(S, p) ==
    LET cards == S.decks[p][S.player[p].deck_in_duel].cards
    IN  cards[1].value + cards[2].value + cards[3].value

\* Duel.is_drawn
is_drawn(S) ==
    SumInDuel(S, duel_ongoing(S).offense) = SumInDuel(S, duel_ongoing(S).defense)

\* ComputerPlayer.disclosed_values
disclosed_values(ds) ==
    {ds[i].cards[k].value : <<i, k>> \in
        {x \in DeckIndexes \X Slots :
            ~is_undisclosed(ds[x[1]]) /\ ds[x[1]].cards[x[2]].open}}

\* Player.is_done
is_done(S, p) == Cardinality(disclosed_values(S.decks[p])) = NUM_RANKS

\* variant: DIE and DRAW stay valid whatever the counters
valid_actions_Uncapped(pl, round_) ==
    {DONE}
    \cup (IF round_ \in {1, 2} THEN {DARE, DIE} ELSE {})
    \cup (IF round_ = 3 THEN {IDLE, DRAW} ELSE {})

\* Player.valid_actions (round_ is 1, 2 or 3 whenever it is consulted)
valid_actions(pl, round_) ==
    {DONE}
    \cup (IF round_ \in {1, 2} THEN {DARE} ELSE {})
    \cup (IF round_ \in {1, 2} /\ pl.num_shout_die < MAX_DIE THEN {DIE} ELSE {})
    \cup (IF round_ = 3 THEN {IDLE} ELSE {})
    \cup (IF round_ = 3 /\ pl.num_shout_draw < MAX_DRAW THEN {DRAW} ELSE {})

\* Player.undisclosed_decks (as the set of their indexes)
undisclosed_decks(ds) == {i \in DeckIndexes : is_undisclosed(ds[i])}

\* Game._end: the loser is inferred from the winner
GameEnd(S, result, winner) ==
    [S EXCEPT !.game.over = TRUE, !.game.result = result,
              !.game.winner = winner,
              !.game.loser = IF winner = PLAYER_BLACK THEN PLAYER_RED
                             ELSE PLAYER_BLACK]

\* variant: the deck is opened and stays in the duel
FinishedDeck_StaysInDuel(deck) ==
    [deck EXCEPT !.cards = [k \in Slots |-> open_up(deck.cards[k])]]

\* variant: the deck is opened and given back to its player's choice
FinishedDeck_Undisclosed(deck) ==
    [deck EXCEPT !.state = UNDISCLOSED,
                 !.cards = [k \in Slots |-> open_up(deck.cards[k])]]

\* variant: the deck is finished with its cards left as they are
FinishedDeck_CardsKept(deck) == [deck EXCEPT !.state = DECK_FINISHED]

\* Deck.finish and Card.open_up of every card of the deck
FinishedDeck(deck) ==
    [deck EXCEPT !.state = DECK_FINISHED,
                 !.cards = [k \in Slots |-> open_up(deck.cards[k])]]

\* variant: the duel ends with the players' commitments left in place
DuelEnd_CommitmentKept(S, state, winner) ==
    LET i == S.game.duel_index
        duel == S.duels[i]
        loser == IF winner = NoOne THEN NoOne
                 ELSE IF winner = duel.offense THEN duel.offense
                 ELSE duel.defense
        in_duel(p) == S.player[p].deck_in_duel
    IN  [S EXCEPT
            !.duels[i] = [@ EXCEPT !.over = TRUE, !.state = state,
                                   !.winner = winner, !.loser = loser],
            !.player = [p \in Players |->
                [S.player[p] EXCEPT
                    !.points = IF p = winner THEN @ + 1 ELSE @]],
            !.decks = [p \in Players |->
                IF in_duel(p) = None THEN S.decks[p]
                ELSE [S.decks[p] EXCEPT ![in_duel(p)] = FinishedDeck(@)]]]

\* Duel.end(state, winner): winner is NoOne for DIED and
\* ABORTED_BY_CORRECT_DONE.  With a winner given and no loser, the loser is
\* set by the branch `if winner == self.offense: self.loser = self.offense`.
DuelEnd(S, state, winner) ==
    LET i == S.game.duel_index
        duel == S.duels[i]
        loser == IF winner = NoOne THEN NoOne
                 ELSE IF winner = duel.offense THEN duel.offense
                 ELSE duel.defense
        in_duel(p) == S.player[p].deck_in_duel
    IN  [S EXCEPT
            !.duels[i] = [@ EXCEPT !.over = TRUE, !.state = state,
                                   !.winner = winner, !.loser = loser],
            !.player = [p \in Players |->
                [S.player[p] EXCEPT
                    !.points = IF p = winner THEN @ + 1 ELSE @,
                    !.deck_in_duel = None]],
            !.decks = [p \in Players |->
                IF in_duel(p) = None THEN S.decks[p]
                ELSE [S.decks[p] EXCEPT ![in_duel(p)] = FinishedDeck(@)]]]

\* ------------------------------------------------------------------------
\* Game.process_shout
\* ------------------------------------------------------------------------
\* the place of the first shout of player p in the list, 0 when none
FirstShoutBy(shouts, p) ==
    IF \E k \in DOMAIN shouts : shouts[k].player = p
    THEN CHOOSE k \in DOMAIN shouts :
            /\ shouts[k].player = p
            /\ \A j \in DOMAIN shouts : shouts[j].player = p => k <= j
    ELSE 0

\* "Get only the first shout for each player": what the first loop of
\* process_shout hears, per player the action of that player's first shout
\* in the list, or Unheard
Unheard == "Unheard"
FirstShouts(shouts) ==
    [p \in Players |->
        IF FirstShoutBy(shouts, p) = 0 THEN Unheard
        ELSE shouts[FirstShoutBy(shouts, p)].action]

\* a player's recent_action is overwritten by the first shout of that player
\* and otherwise kept
HeardShouts(S, first) ==
    [S EXCEPT !.player = [p \in Players |->
        IF first[p] = Unheard THEN S.player[p]
        ELSE [S.player[p] EXCEPT !.recent_action = first[p]]]]

\* variant: an incorrect DONE returns from process_shout
DoneTurn_StopsRound(S, p) ==
    IF S.player[p].recent_action = DONE
    THEN LET S1 == [S EXCEPT !.player[p].num_shout_done = @ + 1]
         IN  IF is_done(S1, p)
             THEN [S |-> GameEnd(DuelEnd(S1, ABORTED_BY_CORRECT_DONE, NoOne),
                                 GAME_DONE, p),
                   returned |-> TRUE]
             ELSE [S |-> S1, returned |-> TRUE]
    ELSE [S |-> S, returned |-> FALSE]

\* One turn of a tier's loop `for player in duel.players`.  Each yields the
\* state it leaves and whether process_shout returned in it.
DoneTurn(S, p) ==
    IF S.player[p].recent_action = DONE
    THEN LET S1 == [S EXCEPT !.player[p].num_shout_done = @ + 1]
         IN  IF is_done(S1, p)
             THEN [S |-> GameEnd(DuelEnd(S1, ABORTED_BY_CORRECT_DONE, NoOne),
                                 GAME_DONE, p),
                   returned |-> TRUE]
             ELSE [S |-> S1, returned |-> FALSE]
    ELSE [S |-> S, returned |-> FALSE]

\* variant: a DIE gives the duel to the other player
DieTurn_OpponentScores(S, p) ==
    IF /\ DIE \in valid_actions(S.player[p], duel_ongoing(S).round_)
       /\ S.player[p].recent_action = DIE
    THEN [S |-> DuelEnd([S EXCEPT !.player[p].num_shout_die = @ + 1],
                        DIED, Other(p)),
          returned |-> TRUE]
    ELSE [S |-> S, returned |-> FALSE]

DieTurn(S, p) ==
    IF /\ DIE \in valid_actions(S.player[p], duel_ongoing(S).round_)
       /\ S.player[p].recent_action = DIE
    THEN [S |-> DuelEnd([S EXCEPT !.player[p].num_shout_die = @ + 1],
                        DIED, NoOne),
          returned |-> TRUE]
    ELSE [S |-> S, returned |-> FALSE]

\* variant: the game ends only once the winner holds more than
\* REQUIRED_POINTS
EndGameIfWon_Exceeds(S) ==
    LET winner == duel_ongoing(S).winner
    IN  IF S.player[winner].points > REQUIRED_POINTS
        THEN GameEnd(S, GAME_FINISHED, winner)
        ELSE S

\* the game ends when the duel's winner holds exactly REQUIRED_POINTS
EndGameIfWon(S) ==
    LET winner == duel_ongoing(S).winner
    IN  IF S.player[winner].points = REQUIRED_POINTS
        THEN GameEnd(S, GAME_FINISHED, winner)
        ELSE S

\* variant: a correct DRAW gives the duel to the defense
DrawTurn_ToDefense(S, p) ==
    IF /\ DRAW \in valid_actions(S.player[p], duel_ongoing(S).round_)
       /\ S.player[p].recent_action = DRAW
    THEN LET S1 == [S EXCEPT !.player[p].num_shout_draw = @ + 1]
         IN  IF is_drawn(S1)
             THEN [S |-> EndGameIfWon(DuelEnd(S1, DRAWN,
                                              duel_ongoing(S).defense)),
                   returned |-> TRUE]
             ELSE [S |-> S1, returned |-> FALSE]
    ELSE [S |-> S, returned |-> FALSE]

\* variant: only a correct DRAW is counted
DrawTurn_CountsCorrectOnly(S, p) ==
    IF /\ DRAW \in valid_actions(S.player[p], duel_ongoing(S).round_)
       /\ S.player[p].recent_action = DRAW
    THEN IF is_drawn(S)
         THEN [S |-> EndGameIfWon(DuelEnd(
                        [S EXCEPT !.player[p].num_shout_draw = @ + 1],
                        DRAWN, p)),
               returned |-> TRUE]
         ELSE [S |-> S, returned |-> FALSE]
    ELSE [S |-> S, returned |-> FALSE]

DrawTurn(S, p) ==
    IF /\ DRAW \in valid_actions(S.player[p], duel_ongoing(S).round_)
       /\ S.player[p].recent_action = DRAW
    THEN LET S1 == [S EXCEPT !.player[p].num_shout_draw = @ + 1]
         IN  IF is_drawn(S1)
             THEN [S |-> EndGameIfWon(DuelEnd(S1, DRAWN, p)),
                   returned |-> TRUE]
             ELSE [S |-> S1, returned |-> FALSE]
    ELSE [S |-> S, returned |-> FALSE]

\* variant: round 3 ends the duel only when the sums differ
FallThrough_TieUndecided(S) ==
    LET duel == duel_ongoing(S)
        sum_offense == SumInDuel(S, duel.offense)
        sum_defense == SumInDuel(S, duel.defense)
    IN  IF duel.round_ \in {1, 2} THEN S
        ELSE IF sum_offense > sum_defense
        THEN EndGameIfWon(DuelEnd(S, FINISHED, duel.offense))
        ELSE IF sum_offense < sum_defense
        THEN EndGameIfWon(DuelEnd(S, FINISHED, duel.defense))
        ELSE S

\* variant: equal sums give the duel to the offense
FallThrough_TieToOffense(S) ==
    LET duel == duel_ongoing(S)
        sum_offense == SumInDuel(S, duel.offense)
        sum_defense == SumInDuel(S, duel.defense)
    IN  IF duel.round_ \in {1, 2} THEN S
        ELSE IF sum_offense >= sum_defense
        THEN EndGameIfWon(DuelEnd(S, IF sum_offense > sum_defense
                                     THEN FINISHED ELSE DRAWN, duel.offense))
        ELSE EndGameIfWon(DuelEnd(S, FINISHED, duel.defense))

\* the last part of process_shout: double dare in rounds 1 and 2, the
\* comparison of the sums in round 3
FallThrough(S) ==
    LET duel == duel_ongoing(S)
        sum_offense == SumInDuel(S, duel.offense)
        sum_defense == SumInDuel(S, duel.defense)
    IN  IF duel.round_ \in {1, 2} THEN S
        ELSE IF sum_offense > sum_defense
        THEN EndGameIfWon(DuelEnd(S, FINISHED, duel.offense))
        ELSE IF sum_offense < sum_defense
        THEN EndGameIfWon(DuelEnd(S, FINISHED, duel.defense))
        ELSE EndGameIfWon(DuelEnd(S, DRAWN, duel.defense))

\* variant: the DONE tier takes the defense's turn first
DoneTier_DefenseFirst(S) ==
    LET first == DoneTurn(S, duel_ongoing(S).defense)
    IN  IF first.returned THEN first
        ELSE DoneTurn(first.S, duel_ongoing(S).offense)

\* a tier's loop: the offense's turn, then (unless it returned) the defense's
DoneTier(S) ==
    LET first == DoneTurn(S, duel_ongoing(S).offense)
    IN  IF first.returned THEN first
        ELSE DoneTurn(first.S, duel_ongoing(S).defense)

\* variant: the DIE tier takes the defense's turn first
DieTier_DefenseFirst(S) ==
    LET first == DieTurn(S, duel_ongoing(S).defense)
    IN  IF first.returned THEN first
        ELSE DieTurn(first.S, duel_ongoing(S).offense)

DieTier(S) ==
    LET first == DieTurn(S, duel_ongoing(S).offense)
    IN  IF first.returned THEN first
        ELSE DieTurn(first.S, duel_ongoing(S).defense)

DrawTier(S) ==
    LET first == DrawTurn(S, duel_ongoing(S).offense)
    IN  IF first.returned THEN first
        ELSE DrawTurn(first.S, duel_ongoing(S).defense)

\* variant: the DIE tier is run before the DONE tier
ByPriority_DieFirst(S) ==
    LET die  == DieTier(S)
        done == IF die.returned THEN die ELSE DoneTier(die.S)
        draw == IF done.returned THEN done ELSE DrawTier(done.S)
    IN  IF draw.returned THEN draw.S ELSE FallThrough(draw.S)

\* priority: done > die > draw > dare (then offense > defense); S is the
\* state once the shouts have been heard
ByPriority(S) ==
    LET done == DoneTier(S)
        die  == IF done.returned THEN done ELSE DieTier(done.S)
        draw == IF die.returned THEN die ELSE DrawTier(die.S)
    IN  IF draw.returned THEN draw.S ELSE FallThrough(draw.S)

process_shout(S, shouts) == ByPriority(HeardShouts(S, FirstShouts(shouts)))

\* Game.process_shout_keypress.  A key is written as the shout it is bound to
\* in the key settings of its player (the two players' keys are disjoint);
\* a key bound to an action that is not valid for its player in the round
\* makes no shout.
ValidShouts(S, keys) ==
    SelectSeq(keys, LAMBDA key :
        key.action \in valid_actions(S.player[key.player],
                                     duel_ongoing(S).round_))

process_shout_keypress(S, keys) == process_shout(S, ValidShouts(S, keys))

\* ------------------------------------------------------------------------
\* Deck commitment
\* ------------------------------------------------------------------------
\* variant: only the entering deck learns of its opponent
send_to_duel_OneSided(S, p, index, opponent_index) ==
    LET S1 == [S EXCEPT !.player[p].deck_in_duel = index,
                        !.player[p].deck_in_duel_index = index,
                        !.decks[p][index].state = IN_DUEL]
    IN  IF opponent_index = None THEN S1
        ELSE [S1 EXCEPT
                !.decks[p][index].opponent_deck_index = opponent_index]

\* Player.send_to_duel / Deck.enter_duel / Deck.meet_opponent
send_to_duel(S, p, index, opponent_index) ==
    LET q == Other(p)
        S1 == [S EXCEPT !.player[p].deck_in_duel = index,
                        !.player[p].deck_in_duel_index = index,
                        !.decks[p][index].state = IN_DUEL]
    IN  IF opponent_index = None THEN S1
        ELSE [S1 EXCEPT
                !.decks[p][index].opponent_deck_index = opponent_index,
                !.decks[q][opponent_index].opponent_deck_index = index]

\* Duel.summon(offense_deck) and Duel.summon(defense_deck=...)
summon_offense(S, index) ==
    send_to_duel(S, duel_ongoing(S).offense, index, None)

summon_defense(S, index) ==
    send_to_duel(S, duel_ongoing(S).defense, index,
                 S.player[duel_ongoing(S).offense].deck_in_duel)

\* Game.process_offense_deck_index_input
process_offense_deck_index_input(S, index) ==
    IF is_undisclosed(S.decks[duel_ongoing(S).offense][index])
    THEN summon_offense(S, index)
    ELSE S

\* variant: the chosen deck is summoned whatever its state
process_defense_deck_index_input_Unchecked(S, index) == summon_defense(S, index)

\* Game.process_defense_deck_index_input
process_defense_deck_index_input(S, index) ==
    IF is_undisclosed(S.decks[duel_ongoing(S).defense][index])
    THEN summon_defense(S, index)
    ELSE S

\* variant: the card is opened in the deck after the deck in the duel
open_next_card_NextDeck(S, p) ==
    LET i == S.player[p].deck_in_duel_index
        cursor == IF S.decks[p][i].card_to_open_index = None THEN 1
                  ELSE S.decks[p][i].card_to_open_index
    IN  [S EXCEPT
            !.decks[p][(i + 1) % DECK_PER_PILE].cards[cursor + 1] = open_up(@),
            !.decks[p][i].card_to_open_index =
                IF cursor + 1 = CARD_PER_DECK THEN None ELSE cursor + 1]

\* Player.open_next_card
open_next_card(S, p) ==
    LET i == S.player[p].deck_in_duel_index
        cursor == IF S.decks[p][i].card_to_open_index = None THEN 1
                  ELSE S.decks[p][i].card_to_open_index
    IN  [S EXCEPT
            !.decks[p][i].cards[cursor + 1] = open_up(@),
            !.decks[p][i].card_to_open_index =
                IF cursor + 1 = CARD_PER_DECK THEN None ELSE cursor + 1]

\* Game._open_next_cards
open_next_cards(S) == open_next_card(open_next_card(S, PLAYER_RED), PLAYER_BLACK)

\* variant: the round advances with no card opened
prepare_CardsKept(S) ==
    LET duel == duel_ongoing(S)
    IN  IF S.player[duel.offense].deck_in_duel = None THEN S
        ELSE IF S.player[duel.defense].deck_in_duel = None THEN S
        ELSE IF duel.round_ \in {1, 2}
        THEN [S EXCEPT !.duels[S.game.duel_index].round_ = @ + 1]
        ELSE S

\* Game.prepare: nothing changes while a deck is still to be chosen; in
\* rounds 1 and 2 the next cards are opened and the round advances
prepare(S) ==
    LET duel == duel_ongoing(S)
    IN  IF S.player[duel.offense].deck_in_duel = None THEN S
        ELSE IF S.player[duel.defense].deck_in_duel = None THEN S
        ELSE IF duel.round_ \in {1, 2}
        THEN [open_next_cards(S) EXCEPT !.duels[S.game.duel_index].round_ = @ + 1]
        ELSE S

\* variant: every duel up to the new one is started
to_next_duel_StartsAll(S) ==
    LET i == S.game.duel_index + 1
    IN  [S EXCEPT !.game.duel_index = i,
                  !.duels = [j \in DeckIndexes |->
                      IF j <= i THEN [S.duels[j] EXCEPT !.state = ONGOING]
                      ELSE S.duels[j]],
                  !.player = [p \in Players |->
                      [S.player[p] EXCEPT !.recent_action = NoAction]]]

\* Game.to_next_duel (duel_index + 1 is a valid index)
to_next_duel(S) ==
    LET i == S.game.duel_index + 1
    IN  [S EXCEPT !.game.duel_index = i,
                  !.duels[i].state = ONGOING,
                  !.player = [p \in Players |->
                      [S.player[p] EXCEPT !.recent_action = NoAction]]]

\* ------------------------------------------------------------------------
\* The inputs Game.accept hands to Game.process
\* ------------------------------------------------------------------------
\* BiggestOffenseDeck.apply
BiggestOffenseDeck(ds) ==
    CHOOSE i \in undisclosed_decks(ds) : \A j \in undisclosed_decks(ds) : j <= i

\* SmallestDefenseDeck.apply
SmallestDefenseDeck(ds) ==
    CHOOSE i \in undisclosed_decks(ds) : \A j \in undisclosed_decks(ds) : i <= j

\* undisclosed_decks()[0] of the last duel
FirstUndisclosed(ds) ==
    CHOOSE i \in undisclosed_decks(ds) : \A j \in undisclosed_decks(ds) : i <= j

\* an index of a deck that is not UNDISCLOSED can only come from the caller
\* of Game.process
DisclosedIndexes(ds) == DeckIndexes \ undisclosed_decks(ds)

\* Game._decide_offense_deck
OffenseDeckInputs(S) ==
    LET ds == S.decks[duel_ongoing(S).offense]
    IN  IF S.game.duel_index = DECK_PER_PILE - 1
        THEN {FirstUndisclosed(ds)}
        ELSE {BiggestOffenseDeck(ds)} \cup DisclosedIndexes(ds)

\* Game._decide_defense_deck
DefenseDeckInputs(S) ==
    LET ds == S.decks[duel_ongoing(S).defense]
    IN  IF S.game.duel_index = DECK_PER_PILE - 1
        THEN {FirstUndisclosed(ds)}
        ELSE {SmallestDefenseDeck(ds)} \cup DisclosedIndexes(ds)

\* the actions a round's prompt lists, whatever the caps
RoundActions(round_) ==
    IF round_ \in {1, 2} THEN {DONE, DARE, DIE} ELSE {DONE, IDLE, DRAW}

\* the shouts a list may hold
ShoutsOffered(S) ==
    {sh \in [player : Players, action : RoundActions(duel_ongoing(S).round_)] :
        sh.action = DONE =>
            S.player[PLAYER_RED].num_shout_done
                + S.player[PLAYER_BLACK].num_shout_done < MaxDone}

\* the shouts of players who only dare
QuietShouts(S) ==
    [player : Players,
     action : IF duel_ongoing(S).round_ \in {1, 2} THEN {DARE} ELSE {IDLE}]

\* ShoutInput.value: a list of shouts, in the order they were made
ShoutLists(offered) == UNION {[1 .. n -> offered] : n \in 0 .. MaxShouts}

ShoutInputs(S) == ShoutLists(ShoutsOffered(S))

LateShoutInputs(S) ==
    IF S.game.duel_index < LateDuels - LoudDuels
    THEN ShoutLists(QuietShouts(S))
    ELSE ShoutInputs(S)

\* the shouts of players who stay silent or declare DIE
DieShouts(S) ==
    [player : Players,
     action : IF duel_ongoing(S).round_ \in {1, 2} THEN {DIE} ELSE {}]

LongShoutInputs(S) ==
    UNION {[1 .. n -> DieShouts(S)] : n \in 0 .. LongShouts}

\* player-red alone declares DIE in each of the first MAX_DIE duels
CapShoutInputs(S) ==
    IF S.game.duel_index < MAX_DIE
    THEN {<<[player |-> PLAYER_RED, action |-> DIE]>>}
    ELSE ShoutInputs(S)

\* ------------------------------------------------------------------------
\* Actions: the steps of main()'s session loop
\* ------------------------------------------------------------------------
Becomes(S) ==
    /\ decks' = S.decks
    /\ player' = S.player
    /\ duels' = S.duels
    /\ game' = S.game

\* the two loop tests that follow game.process
AfterProcess(S) ==
    IF ~duel_ongoing(S).over THEN "prepare"
    ELSE IF S.game.over THEN "done"
    ELSE "to_next_duel"

OffensePending == player[duel_ongoing(Here).offense].deck_in_duel = None
DefensePending ==
    /\ ~OffensePending
    /\ player[duel_ongoing(Here).defense].deck_in_duel = None
ShoutPhase ==
    /\ pc = "accept"
    /\ ~OffensePending
    /\ ~DefensePending

\* `while not game.is_over(): duel = game.to_next_duel()`
ToNextDuelWithin(limit) ==
    /\ pc = "to_next_duel"
    /\ game.duel_index + 1 < DECK_PER_PILE
    /\ game.duel_index + 1 < limit
    /\ Becomes(to_next_duel(Here))
    /\ pc' = "prepare"
    /\ heard' = [p \in Players |-> FALSE]

ToNextDuel == ToNextDuelWithin(MaxDuels)

ToNextDuelLate == ToNextDuelWithin(LateDuels)

Prepare ==
    /\ pc = "prepare"
    /\ Becomes(prepare(Here))
    /\ pc' = "accept"
    /\ heard' = [p \in Players |-> FALSE]

ProcessOffenseDeckIndexInput ==
    /\ pc = "accept"
    /\ OffensePending
    /\ \E index \in OffenseDeckInputs(Here) :
          LET S == process_offense_deck_index_input(Here, index)
          IN  Becomes(S) /\ pc' = AfterProcess(S)
    /\ UNCHANGED heard

ProcessDefenseDeckIndexInput ==
    /\ pc = "accept"
    /\ DefensePending
    /\ \E index \in DefenseDeckInputs(Here) :
          LET S == process_defense_deck_index_input(Here, index)
          IN  Becomes(S) /\ pc' = AfterProcess(S)
    /\ UNCHANGED heard

\* game.process(game.accept()) on a list of shouts.  Lists that agree on the
\* first shout of each player are processed alike: process_shout(Here, sh) is
\* ByPriority(HeardShouts(Here, first)) for every list sh of the inputs with
\* FirstShouts(sh) = first.
ProcessShoutFrom(inputs) ==
    /\ ShoutPhase
    /\ duel_ongoing(Here).round_ \in {1, 2, 3}
    /\ \E first \in {FirstShouts(sh) : sh \in inputs} :
          LET S == ByPriority(HeardShouts(Here, first))
          IN  /\ Becomes(S)
              /\ pc' = AfterProcess(S)
              /\ heard' = [p \in Players |-> first[p] # Unheard]

ProcessShout == ProcessShoutFrom(ShoutInputs(Here))

ProcessShoutLate == ProcessShoutFrom(LateShoutInputs(Here))

\* game.process(game.accept()) on the keys two human players pressed:
\* process_shout_keypress(Here, keys) is ByPriority(HeardShouts(Here, first))
\* for every list keys of the inputs with FirstShouts(ValidShouts(Here, keys))
\* = first.
ProcessShoutKeypressFrom(inputs) ==
    /\ ShoutPhase
    /\ duel_ongoing(Here).round_ \in {1, 2, 3}
    /\ \E first \in {FirstShouts(ValidShouts(Here, keys)) : keys \in inputs} :
          LET S == ByPriority(HeardShouts(Here, first))
          IN  /\ Becomes(S)
              /\ pc' = AfterProcess(S)
              /\ heard' = [p \in Players |-> first[p] # Unheard]

ProcessShoutKeypress == ProcessShoutKeypressFrom(ShoutInputs(Here))

ProcessShoutKeypressLate == ProcessShoutKeypressFrom(LateShoutInputs(Here))

Next ==
    \/ ToNextDuel
    \/ Prepare
    \/ ProcessOffenseDeckIndexInput
    \/ ProcessDefenseDeckIndexInput
    \/ ProcessShout
    \/ ProcessShoutKeypress

Spec == Init /\ [][Next]_vars

NextLate ==
    \/ ToNextDuelLate
    \/ Prepare
    \/ ProcessOffenseDeckIndexInput
    \/ ProcessDefenseDeckIndexInput
    \/ ProcessShoutLate
    \/ ProcessShoutKeypressLate

SpecLate == Init /\ [][NextLate]_vars

ToNextDuelLong == ToNextDuelWithin(DECK_PER_PILE)

ProcessShoutLong == ProcessShoutFrom(LongShoutInputs(Here))

ProcessShoutKeypressLong == ProcessShoutKeypressFrom(LongShoutInputs(Here))

NextLong ==
    \/ ToNextDuelLong
    \/ Prepare
    \/ ProcessOffenseDeckIndexInput
    \/ ProcessDefenseDeckIndexInput
    \/ ProcessShoutLong
    \/ ProcessShoutKeypressLong

SpecLong == Init /\ [][NextLong]_vars

ToNextDuelCaps == ToNextDuelWithin(CapDuels)

ProcessShoutCaps == ProcessShoutFrom(CapShoutInputs(Here))

ProcessShoutKeypressCaps == ProcessShoutKeypressFrom(CapShoutInputs(Here))

NextCaps ==
    \/ ToNextDuelCaps
    \/ Prepare
    \/ ProcessOffenseDeckIndexInput
    \/ ProcessDefenseDeckIndexInput
    \/ ProcessShoutCaps
    \/ ProcessShoutKeypressCaps

SpecCaps == Init /\ [][NextCaps]_vars

\* ------------------------------------------------------------------------
\* Deck building on its own: main() from the construction of the players to
\* the end of Game.build_decks.  Both players are given the same pair of
\* joker strategies; the shuffle deals the joker and a card of either suit
\* first (the joker in any slot, the first suit's card before the second
\* suit's, their values in any order) and the rest of the pile after them.
\* ------------------------------------------------------------------------
\* Player.__init__ with the player's two joker strategies
NewPlayerWith(value_strategy, position_strategy) ==
    [points |-> 0, num_shout_die |-> 0, num_shout_done |-> 0,
     num_shout_draw |-> 0, deck_in_duel |-> None,
     deck_in_duel_index |-> None, recent_action |-> NoAction,
     joker_value_strategy |-> value_strategy,
     joker_position_strategy |-> position_strategy]

FirstSuit == 1 .. NUM_RANKS
SecondSuit == (NUM_RANKS + 1) .. (2 * NUM_RANKS)

\* the first three cards popped, in the order of the pops
JokerHands ==
    {hand \in [Slots -> 0 .. (PileSize - 1)] :
        /\ \E k \in Slots : hand[k] = 0
        /\ \E k, m \in Slots :
              /\ k < m
              /\ hand[k] \in FirstSuit
              /\ hand[m] \in SecondSuit}

ShuffleOf(p) == IF p = PLAYER_RED THEN RedShuffle ELSE BlackShuffle

\* an outcome of random.shuffle that deals `hand` first
ShuffleDealing(p, hand) ==
    SelectSeq(ShuffleOf(p), LAMBDA k : \A slot \in Slots : hand[slot] # k)
        \o [k \in Slots |-> hand[CARD_PER_DECK + 1 - k]]

\* random.choice is called by RandomNumber alone
RandomDraws(value_strategy) ==
    IF value_strategy = "RandomNumber" THEN 1 .. NUM_RANKS ELSE {1}

InitBuild ==
    \E value_strategy \in JokerValueStrategies,
       position_strategy \in JokerPositionStrategies :
        /\ decks = [p \in Players |-> << >>]
        /\ player = [p \in Players |->
                        NewPlayerWith(value_strategy, position_strategy)]
        /\ duels = [i \in DeckIndexes |-> NewDuel(i)]
        /\ game = NewGame
        /\ pc = "build_decks"
        /\ heard = [p \in Players |-> FALSE]

\* Game.build_decks: Player.build_decks of both players
BuildDecks ==
    /\ pc = "build_decks"
    /\ \E hand \in JokerHands :
       \E r \in RandomDraws(player[PLAYER_RED].joker_value_strategy) :
          decks' = [p \in Players |->
                       build_decks(ShuffleDealing(p, hand),
                                   player[p].joker_value_strategy,
                                   player[p].joker_position_strategy, r)]
    /\ pc' = "to_next_duel"
    /\ UNCHANGED <<player, duels, game, heard>>

NextBuild == BuildDecks

SpecBuild == InitBuild /\ [][NextBuild]_vars

\* ------------------------------------------------------------------------
\* The automated choices of a ComputerPlayer.  `me` is the player choosing.
\* ------------------------------------------------------------------------
IndexError == "IndexError"
ZeroDivisionError == "ZeroDivisionError"

\* [deck for deck in decks if deck.is_undisclosed()][n]
UndisclosedAt(ds, n) ==
    CHOOSE i \in undisclosed_decks(ds) :
        Cardinality({j \in undisclosed_decks(ds) : j < i}) = n

\* StatsConsideredBiggest.apply: `index`
StatsOffset(S, me) ==
    (MAX_DIE - S.player[Other(me)].num_shout_die)
        + (REQUIRED_POINTS - S.player[me].points) - 1

\* StatsConsideredBiggest.apply: undisclosed_decks[index] raises IndexError
\* for an index outside the list; a negative index counts from its end
StatsRaises(S, me) ==
    LET n == Cardinality(undisclosed_decks(S.decks[Other(me)]))
    IN  StatsOffset(S, me) >= n \/ StatsOffset(S, me) < 0 - n

StatsConsideredBiggest(S, me) ==
    LET ds == S.decks[Other(me)]
        n == Cardinality(undisclosed_decks(ds))
        index == StatsOffset(S, me)
    IN  UndisclosedAt(ds, IF index < 0 THEN index + n ELSE index)

\* next(deck for deck in decks if deck.is_in_duel())
deck_in_duel_of(ds) ==
    ds[CHOOSE i \in DeckIndexes :
          /\ is_in_duel(ds[i])
          /\ \A j \in DeckIndexes : is_in_duel(ds[j]) => i <= j]

\* sum(card._value for card in deck if card.open_)
current_sum(deck) ==
    (IF deck.cards[1].open THEN deck.cards[1].value ELSE 0)
        + (IF deck.cards[2].open THEN deck.cards[2].value ELSE 0)
        + (IF deck.cards[3].open THEN deck.cards[3].value ELSE 0)

\* sum(card._value for card in deck)
sum_of(deck) ==
    deck.cards[1].value + deck.cards[2].value + deck.cards[3].value

num_opened(deck) == Cardinality({k \in Slots : deck.cards[k].open})

\* guess_joker_value with the strategy get_chances is called with, SameAsMax
guess_joker_value(delegate) == delegate

\* hidden_cards_me: the places <<deck, slot>> of my cards that are not open
\* and are jokers or not above my delegate
hidden_cards_me(ds) ==
    {place \in DeckIndexes \X Slots :
        LET card == ds[place[1]].cards[place[2]]
        IN  /\ ~card.open
            /\ \/ _is_joker(card)
               \/ card.value <= delegate_value(deck_in_duel_of(ds))}

\* what a candidate card of mine adds to my sum
guessed_value_me(ds, place) ==
    LET card == ds[place[1]].cards[place[2]]
    IN  IF _is_joker(card)
        THEN guess_joker_value(delegate_value(deck_in_duel_of(ds)))
        ELSE card.value

\* unopened_pile: the cards of the opponent's whole pile, by number, less
\* those that lie open in the opponent's decks
unopened_pile(ds) ==
    {k \in 0 .. (PileSize - 1) :
        \A place \in DeckIndexes \X Slots :
            LET card == ds[place[1]].cards[place[2]]
            IN  card.open =>
                   ~(/\ card.suit = PileCard(k).suit
                     /\ card.rank = PileCard(k).rank)}

\* hidden_cards_opponent
hidden_cards_opponent(ds) ==
    {k \in unopened_pile(ds) :
        \/ _is_joker(PileCard(k))
        \/ PileCard(k).value <= delegate_value(deck_in_duel_of(ds))}

guessed_value_opponent(ds, k) ==
    IF _is_joker(PileCard(k))
    THEN guess_joker_value(delegate_value(deck_in_duel_of(ds)))
    ELSE PileCard(k).value

\* itertools.combinations(cards, n) for the n a 3-card deck allows
combinations(cards, n) ==
    IF n = 0 THEN {{}}
    ELSE IF n = 1 THEN {{x} : x \in cards}
    ELSE {c \in {{x, y} : x \in cards, y \in cards} : Cardinality(c) = 2}

\* the sums the two loops of get_chances compare: one entry per candidate
\* combination, the open cards' sum plus the guessed values of the candidate
sums_me(ds) ==
    LET deck == deck_in_duel_of(ds)
        Added(c) ==
            IF c = {} THEN 0
            ELSE LET x == CHOOSE x \in c : TRUE
                 IN  guessed_value_me(ds, x)
                        + (IF c = {x} THEN 0
                           ELSE guessed_value_me(ds, CHOOSE y \in c : y # x))
    IN  [c \in combinations(hidden_cards_me(ds), 3 - num_opened(deck)) |->
            current_sum(deck) + Added(c)]

\* the opponent's combinations have as many cards as mine: num_to_open is
\* counted on my deck
sums_opponent(ds_me, ds) ==
    LET deck == deck_in_duel_of(ds)
        Added(c) ==
            IF c = {} THEN 0
            ELSE LET x == CHOOSE x \in c : TRUE
                 IN  guessed_value_opponent(ds, x)
                        + (IF c = {x} THEN 0
                           ELSE guessed_value_opponent(ds,
                                                       CHOOSE y \in c : y # x))
    IN  [c \in combinations(hidden_cards_opponent(ds),
                            3 - num_opened(deck_in_duel_of(ds_me))) |->
            current_sum(deck) + Added(c)]

\* variant: the odds are read off the two decks as they really are
get_chances_Peeking(S, me) ==
    LET mine == sum_of(deck_in_duel_of(S.decks[me]))
        theirs == sum_of(deck_in_duel_of(S.decks[Other(me)]))
    IN  [num_win |-> IF mine > theirs THEN 1 ELSE 0,
         num_draw |-> IF mine = theirs THEN 1 ELSE 0,
         num_lose |-> IF mine < theirs THEN 1 ELSE 0]

\* `for cards_me in candidates_me: for cards_opponent in candidates_opponent`
pairs(mine, theirs) == (DOMAIN mine) \X (DOMAIN theirs)

\* variant: the sums are compared the other way round
get_chances_Reversed(S, me) ==
    CHOOSE counts \in
        {[num_win |-> Cardinality({pair \in pairs(mine, theirs) :
                        mine[pair[1]] < theirs[pair[2]]}),
          num_draw |-> Cardinality({pair \in pairs(mine, theirs) :
                        mine[pair[1]] = theirs[pair[2]]}),
          num_lose |-> Cardinality({pair \in pairs(mine, theirs) :
                        mine[pair[1]] > theirs[pair[2]]})] :
            mine \in {sums_me(S.decks[me])},
            theirs \in {sums_opponent(S.decks[me], S.decks[Other(me)])}} : TRUE

\* ComputerPlayer.get_chances up to the division: the counts num_win,
\* num_draw, num_lose over all pairs of candidate combinations
get_chances(S, me) ==
    CHOOSE counts \in
        {[num_win |-> Cardinality({pair \in pairs(mine, theirs) :
                        mine[pair[1]] > theirs[pair[2]]}),
          num_draw |-> Cardinality({pair \in pairs(mine, theirs) :
                        mine[pair[1]] = theirs[pair[2]]}),
          num_lose |-> Cardinality({pair \in pairs(mine, theirs) :
                        mine[pair[1]] < theirs[pair[2]]})] :
            mine \in {sums_me(S.decks[me])},
            theirs \in {sums_opponent(S.decks[me], S.decks[Other(me)])}} : TRUE

total_of(counts) == counts.num_win + counts.num_draw + counts.num_lose

\* round(num / total, 3), in thousandths; a tie goes to the even neighbour
odds(num, total) ==
    LET q == (1000 * num) \div total
        r == (1000 * num) % total
    IN  IF 2 * r > total THEN q + 1
        ELSE IF 2 * r < total THEN q
        ELSE IF q % 2 = 0 THEN q ELSE q + 1

\* SimpleActionChoiceStrategy.apply in rounds 1 and 2, from the counts of
\* get_chances; below_70 is `random.random() < .7`
die_or_dare(S, me, counts, below_70) ==
    LET in_turn == duel_ongoing(S).offense = me
        total == total_of(counts)
        odds_win == odds(counts.num_win, total)
                       + (IF in_turn THEN 0 ELSE odds(counts.num_draw, total))
        odds_lose == odds(counts.num_lose, total)
                       + (IF in_turn THEN odds(counts.num_draw, total) ELSE 0)
    IN  IF total = 0 THEN ZeroDivisionError
        ELSE IF /\ S.player[me].num_shout_die < MAX_DIE
                /\ odds_lose > odds_win + 100
                /\ below_70
        THEN DIE
        ELSE DARE

\* ComputerPlayer.undisclosed_values
undisclosed_values(ds) == (1 .. NUM_RANKS) \ disclosed_values(ds)

\* variant: DONE is declared with one value still undisclosed
SimpleActionChoiceStrategy_EagerDone(S, me, below_70) ==
    IF Cardinality(undisclosed_values(S.decks[me])) <= 1 THEN DONE
    ELSE IF duel_ongoing(S).round_ \in {1, 2}
    THEN CHOOSE action \in
            {die_or_dare(S, me, counts, below_70) :
                counts \in {get_chances(S, me)}} : TRUE
    ELSE IF sum_of(deck_in_duel_of(S.decks[me]))
                = sum_of(deck_in_duel_of(S.decks[Other(me)]))
    THEN DRAW
    ELSE NoAction

\* SimpleActionChoiceStrategy.apply (get_chances is called once)
SimpleActionChoiceStrategy(S, me, below_70) ==
    IF undisclosed_values(S.decks[me]) = {} THEN DONE
    ELSE IF duel_ongoing(S).round_ \in {1, 2}
    THEN CHOOSE action \in
            {die_or_dare(S, me, counts, below_70) :
                counts \in {get_chances(S, me)}} : TRUE
    ELSE IF sum_of(deck_in_duel_of(S.decks[me]))
                = sum_of(deck_in_duel_of(S.decks[Other(me)]))
    THEN DRAW
    ELSE NoAction

\* ------------------------------------------------------------------------
\* A session of a human (player-red) and an AntiDie computer player
\* (player-black): Game._get_actions asks each player in turn for a shout
\* ------------------------------------------------------------------------
AutoPlayer == PLAYER_BLACK

\* Game._decide_offense_deck: BiggestOffenseDeck for the computer, a deck of
\* the human's choice otherwise
AutoOffenseDeckInputs(S) ==
    LET offense == duel_ongoing(S).offense
        ds == S.decks[offense]
    IN  IF S.game.duel_index = DECK_PER_PILE - 1
        THEN {FirstUndisclosed(ds)}
        ELSE IF offense = AutoPlayer
        THEN {BiggestOffenseDeck(ds)}
        ELSE {BiggestOffenseDeck(ds), SmallestDefenseDeck(ds)}

\* the strategy of Game._decide_defense_deck raises
AutoDefenseRaises(S) ==
    /\ S.game.duel_index # DECK_PER_PILE - 1
    /\ duel_ongoing(S).offense = AutoPlayer
    /\ StatsRaises(S, AutoPlayer)

\* Game._decide_defense_deck: the offense player chooses the deck of the
\* defense, the computer by StatsConsideredBiggest
AutoDefenseDeckInputs(S) ==
    LET offense == duel_ongoing(S).offense
        ds == S.decks[duel_ongoing(S).defense]
    IN  IF S.game.duel_index = DECK_PER_PILE - 1
        THEN {FirstUndisclosed(ds)}
        ELSE IF offense = AutoPlayer
        THEN {StatsConsideredBiggest(S, offense)}
        ELSE {BiggestOffenseDeck(ds), SmallestDefenseDeck(ds)}

\* Player.shout of either player: the computer's strategy, or the key the
\* human types (here one of DARE and DIE, or of IDLE and DRAW in round 3)
AutoShoutsBy(S, p) ==
    IF p = AutoPlayer
    THEN {SimpleActionChoiceStrategy(S, p, below_70) : below_70 \in BOOLEAN}
    ELSE RoundActions(duel_ongoing(S).round_) \ {DONE}

\* Game._get_actions: one shout of each player, the offense first
AutoShoutInputs(S) ==
    {<<[player |-> duel_ongoing(S).offense, action |-> a],
       [player |-> duel_ongoing(S).defense, action |-> b]>> :
        a \in AutoShoutsBy(S, duel_ongoing(S).offense),
        b \in AutoShoutsBy(S, duel_ongoing(S).defense)}

ToNextDuelAuto == ToNextDuelWithin(AutoDuels)

ProcessOffenseDeckIndexInputAuto ==
    /\ pc = "accept"
    /\ OffensePending
    /\ \E index \in AutoOffenseDeckInputs(Here) :
          LET S == process_offense_deck_index_input(Here, index)
          IN  Becomes(S) /\ pc' = AfterProcess(S)
    /\ UNCHANGED heard

\* an IndexError of the strategy leaves game.accept and ends main()
ProcessDefenseDeckIndexInputAuto ==
    /\ pc = "accept"
    /\ DefensePending
    /\ IF AutoDefenseRaises(Here)
       THEN /\ pc' = IndexError
            /\ UNCHANGED <<decks, player, duels, game>>
       ELSE \E index \in AutoDefenseDeckInputs(Here) :
               LET S == process_defense_deck_index_input(Here, index)
               IN  Becomes(S) /\ pc' = AfterProcess(S)
    /\ UNCHANGED heard

\* a ZeroDivisionError of get_chances leaves game.accept and ends main()
ProcessShoutAuto ==
    /\ ShoutPhase
    /\ duel_ongoing(Here).round_ \in {1, 2, 3}
    /\ \E shouts \in AutoShoutInputs(Here) :
          IF \E k \in DOMAIN shouts : shouts[k].action = ZeroDivisionError
          THEN /\ pc' = ZeroDivisionError
               /\ UNCHANGED <<decks, player, duels, game, heard>>
          ELSE LET first == FirstShouts(shouts)
                   S == ByPriority(HeardShouts(Here, first))
               IN  /\ Becomes(S)
                   /\ pc' = AfterProcess(S)
                   /\ heard' = [p \in Players |-> first[p] # Unheard]

NextAuto ==
    \/ ToNextDuelAuto
    \/ Prepare
    \/ ProcessOffenseDeckIndexInputAuto
    \/ ProcessDefenseDeckIndexInputAuto
    \/ ProcessShoutAuto

\* main() up to the session loop for the deal d
InitOf(d) ==
    /\ decks = [p \in Players |->
          IF p = PLAYER_RED
          THEN build_decks(d.red_pile, d.red_value, d.red_position, d.red_r)
          ELSE build_decks(d.black_pile, d.black_value, d.black_position,
                           d.black_r)]
    /\ player = [p \in Players |-> NewPlayer]
    /\ duels = [i \in DeckIndexes |-> NewDuel(i)]
    /\ game = NewGame
    /\ pc = "to_next_duel"
    /\ heard = [p \in Players |-> FALSE]

\* the human chose Thirteen and JokerAnywhere; AntiDie.__init__ sets the
\* computer's joker strategies to Thirteen and JokerAnywhere
AutoDeal ==
    [red_pile |-> RedShuffle, black_pile |-> BlackShuffle,
     red_value |-> "Thirteen", red_position |-> "JokerAnywhere",
     black_value |-> "Thirteen", black_position |-> "JokerAnywhere",
     red_r |-> 1, black_r |-> 1]

InitAuto == InitOf(AutoDeal)

SpecAuto == InitAuto /\ [][NextAuto]_vars

\* ------------------------------------------------------------------------
\* The same session after another deal: the human chose SameAsMax and
\* JokerLast, and the red shuffle deals the joker, a 2 and an ace to one
\* deck, in this order, and the other ace to the deck of a king
\* ------------------------------------------------------------------------
OddsShuffle ==
    << 12, 14, 13, 22, 20, 21, 18, 19,  9, 17,  5, 25,  8,  7,
       10,  6, 15, 16, 24, 11, 23,  3,  4, 26,  1,  2,  0 >>

OddsDeal ==
    [red_pile |-> OddsShuffle, black_pile |-> BlackShuffle,
     red_value |-> "SameAsMax", red_position |-> "JokerLast",
     black_value |-> "Thirteen", black_position |-> "JokerAnywhere",
     red_r |-> 1, black_r |-> 1]

InitOdds == InitOf(OddsDeal)

SpecOdds == InitOdds /\ [][NextAuto]_vars

\* ------------------------------------------------------------------------
\* The same session, followed through DoneDuels duels, after a deal whose
\* black shuffle puts the thirteen values of one suit into five decks: the
\* three decks with the smallest delegates and the two with the biggest
\* ------------------------------------------------------------------------
DoneShuffle ==
    << 11, 12, 13,  9, 10, 26, 16, 15,  0, 18, 17, 25, 20, 19,
       24, 21, 22, 23,  7, 14,  8,  4,  5,  6,  1,  2,  3 >>

DoneDeal ==
    [red_pile |-> RedShuffle, black_pile |-> DoneShuffle,
     red_value |-> "Thirteen", red_position |-> "JokerAnywhere",
     black_value |-> "Thirteen", black_position |-> "JokerAnywhere",
     red_r |-> 1, black_r |-> 1]

InitDone == InitOf(DoneDeal)

ToNextDuelDone == ToNextDuelWithin(DoneDuels)

NextDone ==
    \/ ToNextDuelDone
    \/ Prepare
    \/ ProcessOffenseDeckIndexInputAuto
    \/ ProcessDefenseDeckIndexInputAuto
    \/ ProcessShoutAuto

SpecDone == InitDone /\ [][NextDone]_vars

\* ------------------------------------------------------------------------
\* The same session after a deal whose black shuffle gives the two decks
\* with the smallest delegates the sums of red's two (17 and 20), and the
\* deck with the biggest delegate the sum 20 of red's deck 7
\* ------------------------------------------------------------------------
InitTies ==
    InitOf([red_pile |-> RedShuffle,
            black_pile |->
                << 24, 23, 25,  7,  4, 11, 17, 16, 13, 19,  5,  9, 22, 21,
                   26,  2,  1, 10, 20, 18,  0,  3,  6,  8, 15, 14, 12 >>,
            red_value |-> "Thirteen", red_position |-> "JokerAnywhere",
            black_value |-> "Thirteen", black_position |-> "JokerAnywhere",
            red_r |-> 1, black_r |-> 1])

SpecTies == InitTies /\ [][NextAuto]_vars

\* ------------------------------------------------------------------------
\* Vocabulary of the properties.  Every step that leaves a ShoutPhase state
\* is one call of Game.process_shout on the ongoing duel.
\* ------------------------------------------------------------------------
Offense == duel_ongoing(Here).offense
Defense == duel_ongoing(Here).defense
Round == duel_ongoing(Here).round_
\* the ongoing duel as the step leaves it
DuelAfter == duels'[game.duel_index]

\* p's first shout of the list handed to the step is the action a
Declared(p, a) == heard'[p] /\ player'[p].recent_action = a
\* the action process_shout goes by for p (Player.recent_action once the
\* list has been heard)
Recognized(p, a) == player'[p].recent_action = a
\* a DONE of p is correct in the round the step resolves
CorrectDone(p) == Recognized(p, DONE) /\ is_done(Here, p)

HasDieAllowance(p) == player[p].num_shout_die < MAX_DIE
HasDrawAllowance(p) == player[p].num_shout_draw < MAX_DRAW

PointsKept(p) == player'[p].points = player[p].points
PointGained(p) == player'[p].points = player[p].points + 1

\* the deck p has committed to the duel, as the step leaves it
CommittedDeckAfter(p) == decks'[p][player[p].deck_in_duel]

\* the side with the greater sum, the defense when the sums are equal
WinnerBySums ==
    IF SumInDuel(Here, Offense) > SumInDuel(Here, Defense)
    THEN Offense ELSE Defense

\* In a state that follows a process_shout step: p's disclosed values held
\* all ranks when the step began (the deck in the duel then showed its first
\* round_ cards)
was_done(p) ==
    LET i == player[p].deck_in_duel_index
        r == duel_ongoing(Here).round_
    IN  Cardinality({decks[p][x[1]].cards[x[2]].value : x \in
            {y \in DeckIndexes \X Slots :
                /\ ~is_undisclosed(decks[p][y[1]])
                /\ (y[1] = i => y[2] <= r)}}) = NUM_RANKS

\* the sums of the two decks of the ongoing duel, in a state that follows a
\* process_shout step
SumOfDuelDeck(p) ==
    LET cards == decks[p][player[p].deck_in_duel_index].cards
    IN  cards[1].value + cards[2].value + cards[3].value

\* ------------------------------------------------------------------------
\* C1
\* ------------------------------------------------------------------------
\* C1: DONE outranks DIE.  In every process_shout step in which one player's
\* action is a correct DONE and the other player's action is DIE with die
\* allowance remaining, the duel ends ABORTED_BY_CORRECT_DONE, the game ends
\* with result DONE and the DONE declarer as winner, and the DIE declarer's
\* die-counter is unchanged, whichever of the two is the offense.
C1_DoneOutranksDie ==
    [][\A p \in Players :
        (/\ ShoutPhase
         /\ CorrectDone(p)
         /\ Recognized(Other(p), DIE)
         /\ HasDieAllowance(Other(p)))
        => /\ DuelAfter.state = ABORTED_BY_CORRECT_DONE
           /\ DuelAfter.over
           /\ game'.over
           /\ game'.result = GAME_DONE
           /\ game'.winner = p
           /\ player'[Other(p)].num_shout_die = player[Other(p)].num_shout_die
      ]_vars

\* reached: the defense's correct DONE has ended the game in a round in which
\* the offense declared a DIE it could still afford
C1_Witness ==
    /\ game.over
    /\ game.result = GAME_DONE
    /\ game.winner = Defense
    /\ Round = 2
    /\ heard[Defense] /\ player[Defense].recent_action = DONE
    /\ was_done(Defense)
    /\ heard[Offense] /\ player[Offense].recent_action = DIE
    /\ player[Offense].num_shout_die < MAX_DIE
    /\ duel_ongoing(Here).state = ABORTED_BY_CORRECT_DONE

\* ------------------------------------------------------------------------
\* C2
\* ------------------------------------------------------------------------
\* C2: offense first within the DIE tier.  In every process_shout step in
\* which both players declare DIE and both still have die allowance, the
\* duel ends DIED, the offense's die-counter increases by exactly 1 and the
\* defense's die-counter is unchanged.
C2_DieOffenseFirst ==
    [][(/\ ShoutPhase
        /\ \A p \in Players : Declared(p, DIE) /\ HasDieAllowance(p))
       => /\ DuelAfter.state = DIED
          /\ DuelAfter.over
          /\ player'[Offense].num_shout_die = player[Offense].num_shout_die + 1
          /\ player'[Defense].num_shout_die = player[Defense].num_shout_die
      ]_vars

\* reached: a duel has ended DIED on the DIEs of both players, the defense
\* having died before and the offense not before this duel
C2_Witness ==
    /\ game.duel_index >= 0
    /\ duel_ongoing(Here).state = DIED
    /\ \A p \in Players : heard[p] /\ player[p].recent_action = DIE
    /\ player[Offense].num_shout_die = 1
    /\ player[Defense].num_shout_die = 1

\* ------------------------------------------------------------------------
\* C3
\* ------------------------------------------------------------------------
\* C3: correct DONE.  In every process_shout step in which a player's
\* recognized action is DONE and all 13 rank values are disclosed among that
\* player's decks, the duel becomes ABORTED_BY_CORRECT_DONE, the game is over
\* with result DONE, the winner is that player (the offense when both
\* players' DONEs are correct), and neither player's points change.
C3_CorrectDone ==
    [][\A p \in Players :
        (ShoutPhase /\ CorrectDone(p))
        => /\ DuelAfter.state = ABORTED_BY_CORRECT_DONE
           /\ game'.over
           /\ game'.result = GAME_DONE
           /\ game'.winner = IF CorrectDone(Other(p)) THEN Offense ELSE p
           /\ \A q \in Players : PointsKept(q)
      ]_vars

\* reached: both players declared a correct DONE in one round and the
\* offense has won the game
C3_Witness ==
    /\ game.over
    /\ game.result = GAME_DONE
    /\ game.winner = Offense
    /\ \A p \in Players :
          heard[p] /\ player[p].recent_action = DONE /\ was_done(p)
    /\ duel_ongoing(Here).state = ABORTED_BY_CORRECT_DONE

\* ------------------------------------------------------------------------
\* C4
\* ------------------------------------------------------------------------
\* the list the step heard, reduced to each player's first shout
HeardFirst ==
    [q \in Players |->
        IF heard'[q] THEN player'[q].recent_action ELSE Unheard]

\* the state process_shout leaves when p dares (or idles) in place of its
\* shout, everything else as the step found it
WithoutShoutOf(p) ==
    ByPriority(HeardShouts(Here,
        [HeardFirst EXCEPT ![p] = IF Round = 3 THEN IDLE ELSE DARE]))

\* the step has left what it would have left had p declared nothing
\* terminal, but for p's counted DONE
ResolvedAsIfNoShoutOf(p) ==
    LET E == [WithoutShoutOf(p) EXCEPT
                !.player[p].num_shout_done = @ + 1,
                !.player[p].recent_action = DONE]
    IN  /\ decks' = E.decks
        /\ player' = E.player
        /\ duels' = E.duels
        /\ game' = E.game

\* C4 as claimed: in every process_shout step in which a player declares
\* DONE while not all 13 rank values are disclosed among that player's decks,
\* that player's done-counter increases by exactly 1, the declaration ends
\* nothing, and the round is resolved by the remaining tiers exactly as if
\* the declarer had declared no terminal action.
C4_AsClaimed ==
    [][\A p \in Players :
        (ShoutPhase /\ Declared(p, DONE) /\ ~is_done(Here, p))
        => /\ player'[p].num_shout_done = player[p].num_shout_done + 1
           /\ ~(game'.result = GAME_DONE /\ game'.winner = p)
           /\ ResolvedAsIfNoShoutOf(p)
      ]_vars

\* C4 amended: the same, unless the declarer is the defense and the offense's
\* recognized action is a correct DONE (process_shout then returns before
\* the defense's DONE is counted).
C4_IncorrectDone ==
    [][\A p \in Players :
        (/\ ShoutPhase
         /\ Declared(p, DONE)
         /\ ~is_done(Here, p)
         /\ ~(p = Defense /\ CorrectDone(Offense)))
        => /\ player'[p].num_shout_done = player[p].num_shout_done + 1
           /\ ~(game'.result = GAME_DONE /\ game'.winner = p)
           /\ ResolvedAsIfNoShoutOf(p)
      ]_vars

\* reached: the offense's incorrect DONE has been counted and the duel has
\* ended on the defense's DIE
C4_Witness ==
    /\ game.duel_index >= 0
    /\ duel_ongoing(Here).state = DIED
    /\ ~game.over
    /\ heard[Offense] /\ player[Offense].recent_action = DONE
    /\ ~was_done(Offense)
    /\ player[Offense].num_shout_done = 1
    /\ heard[Defense] /\ player[Defense].recent_action = DIE
    /\ player[Defense].num_shout_die = 1

\* ------------------------------------------------------------------------
\* C5
\* ------------------------------------------------------------------------
\* C5: DIE end to end.  In every process_shout step of a duel's first shout
\* round (Duel.round_ is 1 or 2 while DIE is recognized) in which the offense
\* declares DIE with die allowance remaining and no correct DONE is
\* recognized, the duel ends DIED, both players' points are unchanged, the
\* offense's die-counter is incremented by exactly 1, and both committed
\* decks are FINISHED with all three of their cards revealed.
C5_OffenseDies ==
    [][(/\ ShoutPhase
        /\ Round \in {1, 2}
        /\ Declared(Offense, DIE)
        /\ HasDieAllowance(Offense)
        /\ \A q \in Players : ~CorrectDone(q))
       => /\ DuelAfter.state = DIED
          /\ DuelAfter.over
          /\ DuelAfter.winner = NoOne
          /\ \A q \in Players : PointsKept(q)
          /\ player'[Offense].num_shout_die = player[Offense].num_shout_die + 1
          /\ \A q \in Players :
                /\ CommittedDeckAfter(q).state = DECK_FINISHED
                /\ \A k \in Slots : CommittedDeckAfter(q).cards[k].open
      ]_vars

\* reached: a duel has ended DIED on the offense's DIE alone, the third
\* cards of both decks revealed by the end of the duel
C5_Witness ==
    /\ game.duel_index >= 0
    /\ duel_ongoing(Here).state = DIED
    /\ Round = 2
    /\ heard[Offense] /\ player[Offense].recent_action = DIE
    /\ ~heard[Defense]
    /\ player[Offense].num_shout_die = 1
    /\ \A q \in Players :
          LET deck == decks[q][player[q].deck_in_duel_index]
          IN  deck.state = DECK_FINISHED /\ deck.cards[CARD_PER_DECK].open

\* ------------------------------------------------------------------------
\* C6
\* ------------------------------------------------------------------------
\* C6 as claimed: in every process_shout step of round 3 in which a player
\* with draw allowance remaining declares DRAW and the two committed decks
\* have equal sums, the duel ends DRAWN with the declaring player as duel
\* winner and exactly that player's points increase by 1; if both players
\* declare DRAW, the offense gets the point and the defense's draw-counter is
\* not incremented.
C6_AsClaimed ==
    [][\A p \in Players :
        (/\ ShoutPhase
         /\ Round = 3
         /\ Declared(p, DRAW)
         /\ HasDrawAllowance(p)
         /\ is_drawn(Here))
        => LET both == Declared(Other(p), DRAW)
               w == IF both THEN Offense ELSE p
           IN  /\ DuelAfter.state = DRAWN
               /\ DuelAfter.winner = w
               /\ PointGained(w)
               /\ PointsKept(Other(w))
               /\ both => player'[Defense].num_shout_draw
                              = player[Defense].num_shout_draw
      ]_vars

\* C6 amended: the same in the rounds in which no correct DONE is recognized,
\* the offense taking the point of a double DRAW when both declarers have
\* draw allowance remaining.
C6_CorrectDraw ==
    [][\A p \in Players :
        (/\ ShoutPhase
         /\ Round = 3
         /\ Declared(p, DRAW)
         /\ HasDrawAllowance(p)
         /\ is_drawn(Here)
         /\ ~CorrectDone(Other(p)))
        => LET both == Declared(Other(p), DRAW) /\ HasDrawAllowance(Other(p))
               w == IF both THEN Offense ELSE p
           IN  /\ DuelAfter.state = DRAWN
               /\ DuelAfter.winner = w
               /\ PointGained(w)
               /\ PointsKept(Other(w))
               /\ both => player'[Defense].num_shout_draw
                              = player[Defense].num_shout_draw
      ]_vars

\* reached: both players declared a correct DRAW they could afford; the
\* offense holds the duel and the defense's DRAW is not counted
C6_Witness ==
    /\ game.duel_index >= 0
    /\ duel_ongoing(Here).state = DRAWN
    /\ duel_ongoing(Here).winner = Offense
    /\ Round = 3
    /\ SumOfDuelDeck(Offense) = SumOfDuelDeck(Defense)
    /\ \A p \in Players : heard[p] /\ player[p].recent_action = DRAW
    /\ player[Offense].num_shout_draw = 1
    /\ player[Defense].num_shout_draw = 0
    /\ player[Offense].points >= 1

\* ------------------------------------------------------------------------
\* C7
\* ------------------------------------------------------------------------
\* what the round-3 comparison of two unequal sums leaves of the duel
DecidedBySums ==
    /\ DuelAfter.state = FINISHED
    /\ DuelAfter.winner = WinnerBySums
    /\ PointGained(WinnerBySums)
    /\ PointsKept(Other(WinnerBySums))

\* C7 as claimed: in every process_shout step of round 3 in which a player
\* declares DRAW while the sums of the two committed decks differ, that
\* player's draw-counter increases by exactly 1 and the duel is decided by
\* the comparison of the sums, the point going to the strictly greater side.
C7_AsClaimed ==
    [][\A p \in Players :
        (/\ ShoutPhase
         /\ Round = 3
         /\ Declared(p, DRAW)
         /\ ~is_drawn(Here))
        => /\ player'[p].num_shout_draw = player[p].num_shout_draw + 1
           /\ DecidedBySums
      ]_vars

\* C7 amended: the same when the declarer has draw allowance remaining and no
\* correct DONE is recognized in the round.
C7_IncorrectDraw ==
    [][\A p \in Players :
        (/\ ShoutPhase
         /\ Round = 3
         /\ Declared(p, DRAW)
         /\ ~is_drawn(Here)
         /\ HasDrawAllowance(p)
         /\ ~CorrectDone(Other(p)))
        => /\ player'[p].num_shout_draw = player[p].num_shout_draw + 1
           /\ DecidedBySums
      ]_vars

\* reached: the defense's DRAW on unequal sums has been counted and the
\* offense, with the greater sum, holds the duel
C7_Witness ==
    /\ game.duel_index >= 0
    /\ duel_ongoing(Here).state = FINISHED
    /\ duel_ongoing(Here).winner = Offense
    /\ SumOfDuelDeck(Offense) > SumOfDuelDeck(Defense)
    /\ heard[Defense] /\ player[Defense].recent_action = DRAW
    /\ player[Defense].num_shout_draw = 1
    /\ player[Offense].recent_action # DRAW
    /\ player[Offense].points >= 1

\* ------------------------------------------------------------------------
\* C8
\* ------------------------------------------------------------------------
\* C8: round-3 fallthrough.  In every process_shout step of round 3 in which
\* no terminal shout (DONE, DIE, DRAW) is recognized for either player, the
\* side whose committed deck has the strictly greater sum is the duel winner
\* and gains exactly 1 point, the defense is the duel winner and gains
\* exactly 1 point when the sums are equal, and the other player's points
\* are unchanged.
C8_Fallthrough ==
    [][(/\ ShoutPhase
        /\ Round = 3
        /\ \A q \in Players : \A a \in {DONE, DIE, DRAW} : ~Recognized(q, a))
       => /\ DuelAfter.over
          /\ DuelAfter.winner = WinnerBySums
          /\ DuelAfter.state = (IF is_drawn(Here) THEN DRAWN ELSE FINISHED)
          /\ PointGained(WinnerBySums)
          /\ PointsKept(Other(WinnerBySums))
      ]_vars

\* reached: nobody shouted in round 3 of a duel of equal sums, and the
\* defense holds the duel and its point
C8_Witness ==
    /\ game.duel_index >= 0
    /\ duel_ongoing(Here).over
    /\ Round = 3
    /\ \A q \in Players : ~heard[q] /\ player[q].recent_action \in {NoAction, DARE}
    /\ SumOfDuelDeck(Offense) = SumOfDuelDeck(Defense)
    /\ duel_ongoing(Here).winner = Defense
    /\ duel_ongoing(Here).state = DRAWN
    /\ player[Defense].points >= 1

\* ------------------------------------------------------------------------
\* C9
\* ------------------------------------------------------------------------
\* C9: game end at the required points.  The step in which a player's points
\* reach REQUIRED_POINTS leaves the game over with result FINISHED and that
\* player as game winner; no step is taken once the game is over (no duel is
\* started, no state changes); no player's points ever exceed
\* REQUIRED_POINTS.
C9_GameEnd ==
    [][/\ ~game.over
       /\ \A p \in Players :
             /\ player'[p].points <= REQUIRED_POINTS
             /\ (player[p].points < REQUIRED_POINTS
                    /\ player'[p].points = REQUIRED_POINTS)
                => /\ game'.over
                   /\ game'.result = GAME_FINISHED
                   /\ game'.winner = p
                   /\ pc' = "done"
      ]_vars

\* reached: the game is over, won with REQUIRED_POINTS by the player who
\* took the last duel with a correct DRAW
C9_Witness ==
    /\ game.over
    /\ game.result = GAME_FINISHED
    /\ pc = "done"
    /\ player[game.winner].points = REQUIRED_POINTS
    /\ duel_ongoing(Here).winner = game.winner
    /\ duel_ongoing(Here).state = DRAWN
    /\ heard[game.winner] /\ player[game.winner].recent_action = DRAW

\* ------------------------------------------------------------------------
\* C10
\* ------------------------------------------------------------------------
\* C10: an empty or partial shout set is resolved as no action.  In every
\* process_shout step, a player from whom the step receives no shout keeps
\* its done-, die- and draw-counters and is not made the game's winner by a
\* DONE, whatever that player declared in earlier rounds of the duel.
C10_UnheardIsNoAction ==
    [][\A p \in Players :
        (ShoutPhase /\ ~heard'[p])
        => /\ player'[p].num_shout_done = player[p].num_shout_done
           /\ player'[p].num_shout_die = player[p].num_shout_die
           /\ player'[p].num_shout_draw = player[p].num_shout_draw
           /\ ~(game'.result = GAME_DONE /\ game'.winner = p)
      ]_vars

\* ------------------------------------------------------------------------
\* C11
\* ------------------------------------------------------------------------
\* the first shout of p in the list whose action is valid for p in the round
FirstValidBy(shouts, p) == FirstShouts(ValidShouts(Here, shouts))[p]

\* the list holds several shouts of p
SeveralBy(shouts, p) ==
    Cardinality({k \in DOMAIN shouts : shouts[k].player = p}) > 1

\* C11, for Game.process_shout_keypress: whatever keys are pressed in a shout
\* round, a player with several shouts among them acts by the first that is
\* valid for the round.
C11_KeypressReduction ==
    ShoutPhase =>
        \A keys \in ShoutInputs(Here) : \A p \in Players :
            (SeveralBy(keys, p) /\ FirstValidBy(keys, p) # Unheard)
            => process_shout_keypress(Here, keys).player[p].recent_action
                   = FirstValidBy(keys, p)

\* C11: shout reduction.  Whatever list of shouts a shout round hands to
\* Game.process_shout or (as keys) to Game.process_shout_keypress, a player
\* with several shouts in the list acts by the first of them that is valid
\* for the round: that is the player's recent_action once the list is
\* processed.
C11_ShoutReduction ==
    ShoutPhase =>
        \A shouts \in ShoutInputs(Here) : \A p \in Players :
            (SeveralBy(shouts, p) /\ FirstValidBy(shouts, p) # Unheard)
            => /\ process_shout(Here, shouts).player[p].recent_action
                      = FirstValidBy(shouts, p)
               /\ process_shout_keypress(Here, shouts).player[p].recent_action
                      = FirstValidBy(shouts, p)

\* ------------------------------------------------------------------------
\* C12
\* ------------------------------------------------------------------------
\* the step is a process_shout that ends the ongoing duel
DuelEnds == ShoutPhase /\ DuelAfter.over

\* C12: duel-end effects.  Every step that ends a duel otherwise than DIED or
\* ABORTED_BY_CORRECT_DONE gives one point to one player and none to the
\* other; every step that ends a duel leaves both committed decks FINISHED
\* with their three cards revealed and neither player with a committed deck.
C12_DuelEndEffects ==
    [][DuelEnds
       => /\ DuelAfter.state \notin {DIED, ABORTED_BY_CORRECT_DONE}
                => \E w \in Players : PointGained(w) /\ PointsKept(Other(w))
          /\ \A q \in Players :
                /\ CommittedDeckAfter(q).state = DECK_FINISHED
                /\ \A k \in Slots : CommittedDeckAfter(q).cards[k].open
                /\ player'[q].deck_in_duel = None
      ]_vars

\* reached: a duel decided in round 3 for the defense, whose sum is the
\* greater; it holds the point, both decks are finished and open, and nobody
\* has a deck in the duel
C12_Witness ==
    /\ game.duel_index >= 0
    /\ duel_ongoing(Here).over
    /\ duel_ongoing(Here).state = FINISHED
    /\ duel_ongoing(Here).winner = Defense
    /\ SumOfDuelDeck(Defense) > SumOfDuelDeck(Offense)
    /\ player[Defense].points >= 1
    /\ \A q \in Players :
          LET deck == decks[q][player[q].deck_in_duel_index]
          IN  /\ deck.state = DECK_FINISHED
              /\ \A k \in Slots : deck.cards[k].open
              /\ player[q].deck_in_duel = None

\* ------------------------------------------------------------------------
\* C13
\* ------------------------------------------------------------------------
\* C13: winner and loser of a duel.  In every duel that has ended with a
\* winner or a loser named, the winner and the loser are the two distinct
\* participants of the duel.
C13_WinnerLoserDistinct ==
    \A i \in DeckIndexes :
        (duels[i].over /\ (duels[i].winner # NoOne \/ duels[i].loser # NoOne))
        => /\ duels[i].winner # duels[i].loser
           /\ {duels[i].winner, duels[i].loser}
                  = {duels[i].offense, duels[i].defense}

\* ------------------------------------------------------------------------
\* C14
\* ------------------------------------------------------------------------
\* C14: terminal duel states.  A duel that is over is DIED, DRAWN, FINISHED
\* or ABORTED_BY_CORRECT_DONE; a duel that is over keeps its state and its
\* winner in every later step, and awards nothing more: points change only
\* in the step that ends a duel, and then by the one point of its winner.
C14_TerminalDuelStates ==
    [][/\ \A i \in DeckIndexes :
             /\ duels'[i].over
                    => duels'[i].state \in {DIED, DRAWN, FINISHED,
                                            ABORTED_BY_CORRECT_DONE}
             /\ duels[i].over
                    => /\ duels'[i].over
                       /\ duels'[i].state = duels[i].state
                       /\ duels'[i].winner = duels[i].winner
       /\ \A p \in Players :
             player'[p].points # player[p].points
             => /\ pc = "accept"
                /\ ~duel_ongoing(Here).over
                /\ DuelAfter.over
                /\ DuelAfter.winner = p
                /\ PointGained(p)
      ]_vars

\* reached: the fifth duel has ended DIED while the four before it are as
\* they ended (the second DRAWN and won by player-red, the third FINISHED and
\* won by player-black), their points still with the winners
C14_Witness ==
    /\ game.duel_index = 4
    /\ duels[4].over /\ duels[4].state = DIED
    /\ \A i \in 0 .. 3 : duels[i].over /\ duels[i].winner # NoOne
    /\ duels[1].state = DRAWN /\ duels[1].winner = PLAYER_RED
    /\ duels[2].state = FINISHED /\ duels[2].winner = PLAYER_BLACK
    /\ player[PLAYER_RED].points = 3
    /\ player[PLAYER_BLACK].points = 1

\* ------------------------------------------------------------------------
\* C15
\* ------------------------------------------------------------------------
\* C15: ordering of a duel's states.  A duel is UNSTARTED as long as the
\* offense deck or the defense deck is not committed to it (so it is ONGOING
\* only once the defense deck is committed), and the defense has no deck in
\* the duel while the offense has none.
C15_DuelStateOrder ==
    \A i \in DeckIndexes :
        /\ i > game.duel_index => duels[i].state = UNSTARTED
        /\ (i = game.duel_index /\ ~duels[i].over)
           => /\ (\E q \in Players : player[q].deck_in_duel = None)
                    => duels[i].state = UNSTARTED
              /\ player[duels[i].offense].deck_in_duel = None
                    => player[duels[i].defense].deck_in_duel = None

\* the part of C15 on the order of the commitments alone
C15_OffenseCommitsFirst ==
    \A i \in DeckIndexes :
        (i = game.duel_index /\ ~duels[i].over
            /\ player[duels[i].offense].deck_in_duel = None)
        => player[duels[i].defense].deck_in_duel = None

\* ------------------------------------------------------------------------
\* C16
\* ------------------------------------------------------------------------
\* C16: round progression.  A duel's round counter goes from 1 to 2 only in
\* a step that resolves a shout round in which no terminal shout is
\* recognized; hence the first shouts of a duel are processed at round 1.
C16_RoundProgression ==
    [][\A i \in DeckIndexes :
        (duels[i].round_ = 1 /\ duels'[i].round_ = 2)
        => /\ ShoutPhase
           /\ i = game.duel_index
           /\ \A q \in Players :
                 \A a \in {DONE, DIE, DRAW} : ~Recognized(q, a)
      ]_vars

\* ------------------------------------------------------------------------
\* C17
\* ------------------------------------------------------------------------
\* C17: offense and defense by parity.  In every duel, at every moment of
\* the game, the offense is player-red when the index is even and
\* player-black when it is odd, and the defense is the other player.
C17_RolesByParity ==
    \A i \in DeckIndexes :
        /\ duels[i].offense = (IF i % 2 = 0 THEN PLAYER_RED ELSE PLAYER_BLACK)
        /\ duels[i].defense = Other(duels[i].offense)

\* ------------------------------------------------------------------------
\* C18
\* ------------------------------------------------------------------------
\* what the session does after process returns S: the same deck choice is
\* requested again (the duel and the game go on, prepare changes nothing and
\* accept finds the same deck missing)
AsksAgain(S, p) ==
    /\ ~S.game.over
    /\ AfterProcess(S) = "prepare"
    /\ prepare(S) = S
    /\ S.player[p].deck_in_duel = None
    /\ S.player[duel_ongoing(S).offense].deck_in_duel
           = player[duel_ongoing(S).offense].deck_in_duel

\* C18: an invalid deck choice is recoverable.  Whenever a deck choice is
\* awaited, an index of a deck that is not UNDISCLOSED handed to
\* process_offense_deck_index_input (for the offense deck) or to
\* process_defense_deck_index_input (for the defense deck) changes no deck,
\* duel or player state and does not end the game, and the same choice is
\* requested again.
C18_InvalidChoiceRecoverable ==
    /\ (pc = "accept" /\ OffensePending)
       => \A index \in DisclosedIndexes(decks[Offense]) :
             LET S == process_offense_deck_index_input(Here, index)
             IN  S = Here /\ AsksAgain(S, Offense)
    /\ (pc = "accept" /\ DefensePending)
       => \A index \in DisclosedIndexes(decks[Defense]) :
             LET S == process_defense_deck_index_input(Here, index)
             IN  S = Here /\ AsksAgain(S, Defense)

\* reached: the defense deck of the third duel is awaited, with decks of the
\* defense that are finished and can be named by mistake
C18_Witness ==
    /\ pc = "accept"
    /\ game.duel_index = 2
    /\ DefensePending
    /\ Cardinality(DisclosedIndexes(decks[Defense])) = 2
    /\ player[Offense].deck_in_duel # None

\* reached: the last duel of a game has ended, black its offense as in every
\* duel of odd index before it
C17_Witness ==
    /\ game.duel_index = DECK_PER_PILE - 1
    /\ \A i \in DeckIndexes : duels[i].over
    /\ \A i \in {1, 3, 5, 7} : duels[i].offense = PLAYER_BLACK
    /\ duels[DECK_PER_PILE - 1].offense = PLAYER_RED
    /\ duels[DECK_PER_PILE - 1].winner \in Players

\* ------------------------------------------------------------------------
\* C19
\* ------------------------------------------------------------------------
\* the step has left what it would have left had p dared (or idled) in place
\* of its shout of a
ResolvedAsIfNotDeclared(p, a) ==
    LET E == [WithoutShoutOf(p) EXCEPT !.player[p].recent_action = a]
    IN  /\ decks' = E.decks
        /\ player' = E.player
        /\ duels' = E.duels
        /\ game' = E.game

\* C19: capacity caps.  No step leaves a die-counter above MAX_DIE or a
\* draw-counter above MAX_DRAW; a process_shout step in which a player
\* declares DIE with the die-counter at MAX_DIE, or DRAW with the
\* draw-counter at MAX_DRAW, changes none of that player's counters and
\* resolves the round as if that player had declared no terminal action.
C19_CapacityCaps ==
    [][/\ \A p \in Players :
             /\ player'[p].num_shout_die <= MAX_DIE
             /\ player'[p].num_shout_draw <= MAX_DRAW
       /\ ShoutPhase
          => \A p \in Players :
                /\ (Declared(p, DIE) /\ ~HasDieAllowance(p))
                   => /\ player'[p].num_shout_die = player[p].num_shout_die
                      /\ player'[p].num_shout_done = player[p].num_shout_done
                      /\ player'[p].num_shout_draw = player[p].num_shout_draw
                      /\ ResolvedAsIfNotDeclared(p, DIE)
                /\ (Declared(p, DRAW) /\ ~HasDrawAllowance(p))
                   => /\ player'[p].num_shout_die = player[p].num_shout_die
                      /\ player'[p].num_shout_done = player[p].num_shout_done
                      /\ player'[p].num_shout_draw = player[p].num_shout_draw
                      /\ ResolvedAsIfNotDeclared(p, DRAW)
      ]_vars

\* reached: player-red, its die allowance spent, has declared DIE as the
\* offense of the fifth duel, which goes on
C19_Witness ==
    /\ game.duel_index = 4
    /\ ~duel_ongoing(Here).over
    /\ heard[PLAYER_RED] /\ player[PLAYER_RED].recent_action = DIE
    /\ ~heard[PLAYER_BLACK]
    /\ player[PLAYER_RED].num_shout_die = MAX_DIE
    /\ pc = "prepare"

\* ------------------------------------------------------------------------
\* C20
\* ------------------------------------------------------------------------
\* C20: the decks left when a duel begins.  Every step that begins duel k
\* leaves each player with exactly DECK_PER_PILE - k UNDISCLOSED decks, all
\* the others FINISHED when k is the last duel; and the deck a side commits
\* to the last duel is its only UNDISCLOSED deck.
C20_DecksLeft ==
    [][/\ game'.duel_index # game.duel_index
          => \A p \in Players :
                /\ Cardinality(undisclosed_decks(decks'[p]))
                       = DECK_PER_PILE - game'.duel_index
                /\ game'.duel_index = DECK_PER_PILE - 1
                   => \A i \in DeckIndexes \ undisclosed_decks(decks'[p]) :
                          decks'[p][i].state = DECK_FINISHED
       /\ (pc = "accept" /\ game.duel_index = DECK_PER_PILE - 1)
          => \A p \in Players :
                (player[p].deck_in_duel = None
                    /\ player'[p].deck_in_duel # None)
                => undisclosed_decks(decks[p]) = {player'[p].deck_in_duel}
      ]_vars

\* reached: both sides have committed their last deck to the ninth duel
C20_Witness ==
    /\ game.duel_index = DECK_PER_PILE - 1
    /\ ~duel_ongoing(Here).over
    /\ \A p \in Players :
          /\ player[p].deck_in_duel # None
          /\ undisclosed_decks(decks[p]) = {}
          /\ decks[p][player[p].deck_in_duel].state = IN_DUEL
          /\ Cardinality({i \in DeckIndexes :
                             decks[p][i].state = DECK_FINISHED})
                 = DECK_PER_PILE - 1

\* ------------------------------------------------------------------------
\* C21: the back-references of the two committed decks are mutual.  While
\* only the offense deck is committed it carries no reference; once the
\* defense deck is committed the offense deck's reference is the defense
\* deck's index and the defense deck's reference is the offense deck's
\* index; no deck carries a reference its opponent's deck does not return,
\* and a deck that never entered a duel carries none.
\* ------------------------------------------------------------------------
OpponentOf(p, i) == decks[p][i].opponent_deck_index

C21_MutualBackReference ==
    /\ \A p \in Players : \A i \in DeckIndexes :
          /\ OpponentOf(p, i) # None =>
                /\ OpponentOf(p, i) \in DeckIndexes
                /\ OpponentOf(Other(p), OpponentOf(p, i)) = i
          /\ is_undisclosed(decks[p][i]) => OpponentOf(p, i) = None
    /\ game.duel_index >= 0 =>
          LET o == player[Offense].deck_in_duel
              d == player[Defense].deck_in_duel
          IN  /\ d # None => o # None
              /\ (o # None /\ d = None) => OpponentOf(Offense, o) = None
              /\ (o # None /\ d # None) =>
                    /\ OpponentOf(Offense, o) = d
                    /\ OpponentOf(Defense, d) = o

\* the defense deck of duel 1 (red's) has just been committed against
\* black's offense deck, and the two indices differ
C21_Witness ==
    /\ game.duel_index = 1
    /\ player[Offense].deck_in_duel # None
    /\ player[Defense].deck_in_duel # None
    /\ player[Offense].deck_in_duel # player[Defense].deck_in_duel
    /\ OpponentOf(Offense, player[Offense].deck_in_duel)
          = player[Defense].deck_in_duel
    /\ OpponentOf(Defense, player[Defense].deck_in_duel)
          = player[Offense].deck_in_duel

\* ------------------------------------------------------------------------
\* C22: after Player.build_decks, whatever the joker strategies and the
\* shuffle, the player has 9 decks with the indices 0..8, each of 3 cards;
\* the 27 cards of the decks are the 27 cards of the pile, each once (so
\* one joker among them); delegate values do not decrease with the index.
\* ------------------------------------------------------------------------
Built == pc # "build_decks"
CardPlaces == DeckIndexes \X Slots
CardAt(p, place) == decks[p][place[1]].cards[place[2]]
Identity(card) == <<card.suit, card.rank>>
PileIdentities == {Identity(PileCard(k)) : k \in 0 .. (PileSize - 1)}

C22_DeckBuilding ==
    Built =>
        \A p \in Players :
            /\ DOMAIN decks[p] = 0 .. 8
            /\ Cardinality(DOMAIN decks[p]) = 9
            /\ \A i \in DOMAIN decks[p] :
                  /\ decks[p][i].index = i
                  /\ DOMAIN decks[p][i].cards = 1 .. 3
            /\ {Identity(CardAt(p, place)) : place \in CardPlaces}
                  = PileIdentities
            /\ Cardinality(CardPlaces) = 27
            /\ Cardinality(PileIdentities) = 27
            /\ Cardinality({place \in CardPlaces :
                                _is_joker(CardAt(p, place))}) = 1
            /\ \A i, j \in DOMAIN decks[p] :
                  i <= j => delegate_value(decks[p][i])
                               <= delegate_value(decks[p][j])

\* decks built with the next-biggest and hide-the-joker strategies: the
\* joker's deck was dealt first and is not deck 0, and the delegates differ
C22_Witness ==
    /\ Built
    /\ player[PLAYER_RED].joker_value_strategy = "NextBiggest"
    /\ player[PLAYER_RED].joker_position_strategy = "JokerLast"
    /\ \E i \in DeckIndexes :
          /\ i > 0
          /\ \E slot \in Slots : _is_joker(decks[PLAYER_RED][i].cards[slot])
    /\ delegate_value(decks[PLAYER_RED][0])
          < delegate_value(decks[PLAYER_RED][8])

\* ------------------------------------------------------------------------
\* The deck that holds the joker, as Player.build_decks leaves it
\* ------------------------------------------------------------------------
JokerDeck(p) ==
    decks[p][CHOOSE i \in DeckIndexes :
                \E slot \in Slots : _is_joker(decks[p][i].cards[slot])].cards
JokerSlot(p) == FirstJokerIndex(JokerDeck(p))
JokerValue(p) == JokerDeck(p)[JokerSlot(p)].value
NonJokerValues(p) ==
    {JokerDeck(p)[slot].value : slot \in NonJokerIndexes(JokerDeck(p))}
BestNonJokerValue(p) ==
    CHOOSE v \in NonJokerValues(p) : \A w \in NonJokerValues(p) : w <= v
Uses(p, strategy) ==
    /\ Built
    /\ \/ player[p].joker_value_strategy = strategy
       \/ player[p].joker_position_strategy = strategy

\* ------------------------------------------------------------------------
\* C23: JokerLast on a deck with a joker, whatever the order the cards were
\* dealt in: a joker whose value exceeds the best non-joker value ends in
\* slot 0; otherwise the best non-joker card ends in slot 0 and the joker in
\* the last slot.
\* ------------------------------------------------------------------------
C23_JokerLast ==
    \A p \in Players :
        Uses(p, "JokerLast") =>
            IF JokerValue(p) > BestNonJokerValue(p)
            THEN JokerSlot(p) = 1
            ELSE /\ ~_is_joker(JokerDeck(p)[1])
                 /\ JokerDeck(p)[1].value = BestNonJokerValue(p)
                 /\ JokerSlot(p) = CARD_PER_DECK

\* ------------------------------------------------------------------------
\* C24 as claimed: JokerNotFirst on a deck whose joker's value equals the
\* best non-joker value makes the joker the delegate (slot 0).
\* ------------------------------------------------------------------------
C24_AsClaimed ==
    \A p \in Players :
        (Uses(p, "JokerNotFirst") /\ JokerValue(p) = BestNonJokerValue(p))
            => JokerSlot(p) = 1

\* C24, amended: JokerNotFirst on a deck whose joker's value equals the best
\* non-joker value makes a best non-joker card the delegate (slot 0), not
\* the joker.
C24_TieToNonJoker ==
    \A p \in Players :
        (Uses(p, "JokerNotFirst") /\ JokerValue(p) = BestNonJokerValue(p))
            => /\ ~_is_joker(JokerDeck(p)[1])
               /\ JokerDeck(p)[1].value = BestNonJokerValue(p)
               /\ JokerSlot(p) # 1

\* a JokerNotFirst deck of 9, 4 and a joker worth 9 (SameAsMax): the 9 is
\* the delegate
C24_Witness ==
    /\ Uses(PLAYER_RED, "JokerNotFirst")
    /\ Uses(PLAYER_RED, "SameAsMax")
    /\ NonJokerValues(PLAYER_RED) = {4, 9}
    /\ JokerValue(PLAYER_RED) = 9
    /\ ~_is_joker(JokerDeck(PLAYER_RED)[1])
    /\ JokerDeck(PLAYER_RED)[1].value = 9

\* ------------------------------------------------------------------------
\* C25 as claimed: NextBiggest on a deck whose non-joker values are {7, 8}
\* gives the joker the value 5.
\* ------------------------------------------------------------------------
C25_AsClaimed ==
    \A p \in Players :
        (Uses(p, "NextBiggest") /\ NonJokerValues(p) = {7, 8})
            => JokerValue(p) = 5

\* C25, amended: NextBiggest on a deck whose non-joker values are {7, 8}
\* gives the joker the value 6.
C25_NextBiggest78 ==
    \A p \in Players :
        (Uses(p, "NextBiggest") /\ NonJokerValues(p) = {7, 8})
            => JokerValue(p) = 6

C25_Witness ==
    /\ Uses(PLAYER_BLACK, "NextBiggest")
    /\ NonJokerValues(PLAYER_BLACK) = {7, 8}
    /\ JokerValue(PLAYER_BLACK) = 6

\* ------------------------------------------------------------------------
\* C26: NextBiggest on a deck whose non-joker values are {5, 9} gives the
\* joker the value 8.
\* ------------------------------------------------------------------------
C26_NextBiggest59 ==
    \A p \in Players :
        (Uses(p, "NextBiggest") /\ NonJokerValues(p) = {5, 9})
            => JokerValue(p) = 8

C26_Witness ==
    /\ Uses(PLAYER_RED, "NextBiggest")
    /\ NonJokerValues(PLAYER_RED) = {5, 9}
    /\ JokerValue(PLAYER_RED) = 8

\* ------------------------------------------------------------------------
\* C27: whenever StatsConsideredBiggest.apply is consulted (the computer is
\* the offense and the defense deck of a duel other than the last is to be
\* chosen), its offset (MAX_DIE - opponent's die count) + (REQUIRED_POINTS -
\* own points) - 1 is a position 0 .. n-1 of the list of the n undisclosed
\* decks of the opponent.
\* ------------------------------------------------------------------------
StatsConsulted ==
    /\ pc = "accept"
    /\ DefensePending
    /\ Offense = AutoPlayer
    /\ game.duel_index # DECK_PER_PILE - 1

C27_StatsOffsetInRange ==
    StatsConsulted =>
        /\ 0 <= StatsOffset(Here, AutoPlayer)
        /\ StatsOffset(Here, AutoPlayer)
              < Cardinality(undisclosed_decks(decks[Other(AutoPlayer)]))

\* ------------------------------------------------------------------------
\* C28: get_chances on a duel whose two committed decks have no hidden card
\* left counts one pair of candidates: one of the win/draw/lose counts is
\* that total (1) and the other two are 0, and it is the one the comparison
\* of the two decks' summed values gives.
\* ------------------------------------------------------------------------
NothingHidden ==
    /\ game.duel_index >= 0
    /\ \A p \in Players :
          /\ player[p].deck_in_duel # None
          /\ \A k \in Slots : decks[p][player[p].deck_in_duel].cards[k].open

C28_DegenerateOdds ==
    NothingHidden =>
        \A me \in Players :
            LET counts == get_chances(Here, me)
                mine == SumInDuel(Here, me)
                theirs == SumInDuel(Here, Other(me))
            IN  /\ total_of(counts) = 1
                /\ counts.num_win = (IF mine > theirs THEN 1 ELSE 0)
                /\ counts.num_draw = (IF mine = theirs THEN 1 ELSE 0)
                /\ counts.num_lose = (IF mine < theirs THEN 1 ELSE 0)

\* the third cards of duel 1 are open and the computer's deck sums to less
\* than the human's: its one pair is a loss
C28_Witness ==
    /\ NothingHidden
    /\ game.duel_index = 1
    /\ SumInDuel(Here, AutoPlayer) < SumInDuel(Here, Other(AutoPlayer))
    /\ get_chances(Here, AutoPlayer).num_lose = 1
    /\ get_chances(Here, Other(AutoPlayer)).num_win = 1

\* ------------------------------------------------------------------------
\* C29: the duels are entered in the order of their indices, one index at a
\* time; the next duel is entered only when the current one is over; a duel
\* that has started is the current one or an earlier one, and the earlier
\* ones are over; each player has at most one deck IN_DUEL, and it is the
\* deck that player committed to the current duel, which is not over.
\* ------------------------------------------------------------------------
DecksInDuel(p) == {i \in DeckIndexes : is_in_duel(decks[p][i])}

OneDeckInDuel ==
    \A p \in Players :
        /\ Cardinality(DecksInDuel(p)) <= 1
        /\ \A i \in DecksInDuel(p) :
              /\ game.duel_index >= 0
              /\ ~duels[game.duel_index].over
              /\ player[p].deck_in_duel = i

DuelsInOrder ==
    \A k \in DeckIndexes :
        /\ duels[k].state # UNSTARTED => k <= game.duel_index
        /\ k < game.duel_index => duels[k].over

EnteredInOrder ==
    game.duel_index' # game.duel_index =>
        /\ game.duel_index' = game.duel_index + 1
        /\ game.duel_index >= 0 => duels[game.duel_index].over
        /\ duels[game.duel_index'].state = UNSTARTED
        /\ duels'[game.duel_index'].state = ONGOING

C29_SequentialDuels ==
    [][/\ EnteredInOrder
       /\ OneDeckInDuel /\ OneDeckInDuel'
       /\ DuelsInOrder /\ DuelsInOrder']_vars

\* the last duel is under way with both decks committed; the eight before
\* it are over
C29_Witness ==
    /\ game.duel_index = DECK_PER_PILE - 1
    /\ \A p \in Players : Cardinality(DecksInDuel(p)) = 1
    /\ \A k \in DeckIndexes : k < game.duel_index => duels[k].over
    /\ ~duels[game.duel_index].over

\* ------------------------------------------------------------------------
\* C30: the computer's decisions are the same in any two states that differ
\* only in the identity and value of an unrevealed card of its opponent:
\* the counts of get_chances, the action of SimpleActionChoiceStrategy (for
\* the same random draw) and the decks chosen by BiggestOffenseDeck,
\* SmallestDefenseDeck and StatsConsideredBiggest.
\* ------------------------------------------------------------------------
\* the places of p's cards that are not open: those of p's deck in the duel
\* if it has any, else those of the first deck that has any
Unrevealed(p) ==
    {place \in DeckIndexes \X Slots :
        ~decks[p][place[1]].cards[place[2]].open}

VariedPlaces(p) ==
    IF \E place \in Unrevealed(p) : is_in_duel(decks[p][place[1]])
    THEN {place \in Unrevealed(p) : is_in_duel(decks[p][place[1]])}
    ELSE {place \in Unrevealed(p) :
             \A other \in Unrevealed(p) : place[1] <= other[1]}

\* the cards put in their place: the joker, the lowest and the highest cards
\* of the pile, with the lowest and the highest value
OtherCards ==
    {[suit |-> PileCard(k).suit, rank |-> PileCard(k).rank,
      value |-> v, open |-> FALSE] :
        k \in {0, 1, NUM_RANKS, 2 * NUM_RANKS}, v \in {1, NUM_RANKS}}

\* the states that differ from this one in one unrevealed card of p
Variants(p) ==
    {[Here EXCEPT !.decks[p][place[1]].cards[place[2]] = card] :
        place \in VariedPlaces(p), card \in OtherCards}

\* the computer's decisions of the shout phase in state S
ShoutDecisions(S, me) ==
    [counts |-> get_chances(S, me),
     action |-> [below_70 \in BOOLEAN |->
                    SimpleActionChoiceStrategy(S, me, below_70)]]

C30_HiddenCardsIgnored ==
    (pc = "accept" /\ game.duel_index >= 0) =>
        LET me == AutoPlayer
            opponent == Other(AutoPlayer)
        IN  /\ (OffensePending /\ Offense = me) =>
                  \A V \in Variants(opponent) :
                     BiggestOffenseDeck(V.decks[me])
                        = BiggestOffenseDeck(decks[me])
            /\ (DefensePending /\ Offense = me) =>
                  \A V \in Variants(opponent) :
                     /\ SmallestDefenseDeck(V.decks[opponent])
                           = SmallestDefenseDeck(decks[opponent])
                     /\ StatsRaises(V, me) = StatsRaises(Here, me)
                     /\ ~StatsRaises(Here, me) =>
                           StatsConsideredBiggest(V, me)
                              = StatsConsideredBiggest(Here, me)
            /\ ShoutPhase =>
                  \A here \in {ShoutDecisions(Here, me)} :
                     \A V \in Variants(opponent) :
                        ShoutDecisions(V, me) = here

\* round 2 of a duel: the computer would declare DIE, and one of the states
\* that differ in a hidden card of the human's deck has another sum for it
C30_Witness ==
    /\ ShoutPhase
    /\ Round = 2
    /\ SimpleActionChoiceStrategy(Here, AutoPlayer, TRUE) = DIE
    /\ \E V \in Variants(Other(AutoPlayer)) :
          sum_of(deck_in_duel_of(V.decks[Other(AutoPlayer)]))
             # sum_of(deck_in_duel_of(decks[Other(AutoPlayer)]))

\* ------------------------------------------------------------------------
\* C31: the game is over no later than the end of the ninth duel: the
\* session loop never comes to call Game.to_next_duel with duel_index
\* already DECK_PER_PILE - 1, where self.duels[self.duel_index] would be
\* past the nine duels.
\* ------------------------------------------------------------------------
C31_OverWithinNineDuels ==
    pc = "to_next_duel" => game.duel_index < DECK_PER_PILE - 1

\* ------------------------------------------------------------------------
\* C32: every duel terminates.  The round counter of every duel is 1, 2 or
\* 3; shouts are processed with the counter at 2 or 3 only, and the counter
\* never goes back, so a duel sees at most two processed shout lists; a list
\* processed with the counter at 3 ends the duel; Game.prepare is not called
\* on a duel with both decks committed, not over, and the counter at 3.
\* ------------------------------------------------------------------------
ShoutStep == ShoutPhase /\ pc' # "accept"

RoundsWithin == \A i \in DeckIndexes : duels[i].round_ \in {1, 2, 3}

C32_DuelTerminates ==
    [][/\ RoundsWithin /\ RoundsWithin'
       /\ ShoutPhase => Round \in {2, 3}
       /\ \A i \in DeckIndexes : duels'[i].round_ >= duels[i].round_
       /\ (ShoutStep /\ Round = 3) => duels'[game.duel_index].over
       /\ (ShoutStep /\ Round = 2 /\ ~duels'[game.duel_index].over) =>
             /\ pc' = "prepare"
             /\ duels'[game.duel_index].round_ = 2
       /\ (pc = "prepare" /\ game.duel_index >= 0
             /\ \A p \in Players : player[p].deck_in_duel # None) =>
             /\ ~duel_ongoing(Here).over
             /\ Round \in {1, 2}
             /\ duels'[game.duel_index].round_ = Round + 1]_vars

\* the third round's shouts have been processed and the duel is over: it
\* was decided on the sums
C32_Witness ==
    /\ game.duel_index >= 0
    /\ duel_ongoing(Here).over
    /\ Round = 3
    /\ duel_ongoing(Here).state \in {FINISHED, DRAWN}

\* ------------------------------------------------------------------------
\* C33: an UNDISCLOSED deck has its delegate (slot 0) revealed and no other
\* card; a FINISHED deck has its three cards revealed; when shouts are
\* collected, each of the two committed decks has as many cards revealed as
\* the duel's round counter says; a revealed card is never hidden again.
\* ------------------------------------------------------------------------
Revealed(deck) == {k \in Slots : deck.cards[k].open}

RevealedAsStated ==
    /\ \A p \in Players : \A i \in DeckIndexes :
          /\ is_undisclosed(decks[p][i]) => Revealed(decks[p][i]) = {1}
          /\ decks[p][i].state = DECK_FINISHED => Revealed(decks[p][i]) = Slots
    /\ ShoutPhase =>
          \A p \in Players :
             /\ is_in_duel(decks[p][player[p].deck_in_duel])
             /\ Cardinality(Revealed(decks[p][player[p].deck_in_duel])) = Round

C33_RevealInvariant ==
    [][/\ RevealedAsStated
       /\ RevealedAsStated'
       /\ \A p \in Players : \A i \in DeckIndexes :
             Revealed(decks[p][i]) \subseteq Revealed(decks'[p][i])]_vars

\* round-3 shouts are about to be collected on two fully open decks, with a
\* finished deck and an undisclosed deck beside them
C33_Witness ==
    /\ ShoutPhase
    /\ Round = 3
    /\ \A p \in Players : Revealed(decks[p][player[p].deck_in_duel]) = Slots
    /\ \E i \in DeckIndexes : decks[PLAYER_RED][i].state = DECK_FINISHED
    /\ \E i \in DeckIndexes : is_undisclosed(decks[PLAYER_RED][i])

\* ------------------------------------------------------------------------
\* C34: after deck building, whatever the value strategy and the position
\* strategy, the delegate of every deck has a value greater than or equal to
\* the value of each of the deck's other two cards.
\* ------------------------------------------------------------------------
C34_DelegateStrongest ==
    Built =>
        \A p \in Players : \A i \in DeckIndexes : \A slot \in Slots :
            delegate_value(decks[p][i]) >= decks[p][i].cards[slot].value

ChancesConsulted ==
    /\ ShoutPhase
    /\ Round \in {1, 2}
    /\ undisclosed_values(decks[AutoPlayer]) # {}

C36_NoDivisionByZero ==
    ChancesConsulted =>
        LET to_open == CARD_PER_DECK
                          - num_opened(deck_in_duel_of(decks[AutoPlayer]))
        IN  /\ Cardinality(hidden_cards_me(decks[AutoPlayer])) >= to_open
            /\ Cardinality(hidden_cards_opponent(decks[Other(AutoPlayer)]))
                  >= to_open
            /\ total_of(get_chances(Here, AutoPlayer)) >= 1

\* ------------------------------------------------------------------------
\* C37: whenever SimpleActionChoiceStrategy returns DONE for the computer
\* player, Player.is_done holds for it in that state; a shout list in which
\* the computer declares DONE ends the game as DONE, won by the computer
\* unless the offense is the other player and also declared a correct DONE;
\* the computer's num_shout_done never exceeds 1.
\* ------------------------------------------------------------------------
PolicySaysDone ==
    /\ ShoutPhase
    /\ \E below_70 \in BOOLEAN :
          SimpleActionChoiceStrategy(Here, AutoPlayer, below_70) = DONE

C37_AutoDoneCorrect ==
    [][/\ PolicySaysDone => is_done(Here, AutoPlayer)
       /\ (ShoutPhase /\ Declared(AutoPlayer, DONE)) =>
             /\ game'.over
             /\ game'.result = GAME_DONE
             /\ \/ game'.winner = AutoPlayer
                \/ /\ Offense # AutoPlayer
                   /\ Declared(Offense, DONE)
                   /\ is_done(Here, Offense)
                   /\ game'.winner = Offense
       /\ player[AutoPlayer].num_shout_done <= 1
       /\ player'[AutoPlayer].num_shout_done <= 1]_vars

\* the computer declared DONE once, and with it the game ended as DONE and
\* the computer won
C37_Witness ==
    /\ game.over
    /\ game.result = GAME_DONE
    /\ game.winner = AutoPlayer
    /\ heard[AutoPlayer]
    /\ player[AutoPlayer].recent_action = DONE
    /\ player[AutoPlayer].num_shout_done = 1
    /\ is_done(Here, AutoPlayer)

\* ------------------------------------------------------------------------
\* C38: the points of the two players add up to the number of duels that
\* are over in state DRAWN or FINISHED (a duel that ended DIED or
\* ABORTED_BY_CORRECT_DONE gave no point), and no player's points decrease.
\* ------------------------------------------------------------------------
DuelsOverAs(states) ==
    {i \in DeckIndexes : duels[i].over /\ duels[i].state \in states}

PointsConserved ==
    player[PLAYER_RED].points + player[PLAYER_BLACK].points
        = Cardinality(DuelsOverAs({DRAWN, FINISHED}))

C38_PointConservation ==
    [][/\ PointsConserved
       /\ PointsConserved'
       /\ \A p \in Players : player'[p].points >= player[p].points]_vars

\* three duels are over, one DIED, one FINISHED and one DRAWN, and two
\* points have been given
C38_Witness ==
    /\ DuelsOverAs({DIED}) # {}
    /\ DuelsOverAs({FINISHED}) # {}
    /\ DuelsOverAs({DRAWN}) # {}
    /\ player[PLAYER_RED].points + player[PLAYER_BLACK].points = 2

\* ------------------------------------------------------------------------
\* C39: a deck's state stays as it is or moves from UNDISCLOSED to IN_DUEL
\* or from IN_DUEL to FINISHED; a step changes the state, the reveal flags,
\* the index or the order of the cards only of decks committed to the
\* current duel (the decks in the duel before the step, or entering it with
\* the step).
\* ------------------------------------------------------------------------
Framed(deck) ==
    [state |-> deck.state,
     index |-> deck.index,
     open  |-> [k \in Slots |-> deck.cards[k].open],
     order |-> [k \in Slots |-> Identity(deck.cards[k])]]

LifecycleStep(before, after) ==
    \/ after = before
    \/ before = UNDISCLOSED /\ after = IN_DUEL
    \/ before = IN_DUEL /\ after = DECK_FINISHED

C39_DeckLifecycleFrame ==
    [][\A p \in Players : \A i \in DeckIndexes :
          /\ LifecycleStep(decks[p][i].state, decks'[p][i].state)
          /\ Framed(decks'[p][i]) # Framed(decks[p][i]) =>
                /\ game.duel_index >= 0
                /\ i \in {player[p].deck_in_duel, player'[p].deck_in_duel}
                /\ decks[p][i].index = i
                /\ decks'[p][i].index = i
                /\ Framed(decks'[p][i]).order = Framed(decks[p][i]).order]_vars

\* round 2 of the third duel: each player has two finished decks, a deck in
\* the duel with two cards open and six undisclosed decks
C39_Witness ==
    /\ ShoutPhase
    /\ Round = 2
    /\ game.duel_index = 2
    /\ \A p \in Players :
          /\ Cardinality({i \in DeckIndexes :
                            decks[p][i].state = DECK_FINISHED}) = 2
          /\ Cardinality(DecksInDuel(p)) = 1
          /\ Cardinality(undisclosed_decks(decks[p])) = DECK_PER_PILE - 3

\* ------------------------------------------------------------------------
\* C40: whatever SimpleActionChoiceStrategy returns for the computer player
\* when shouts are collected is no action or one of the player's
\* valid_actions for the round: no DIE once num_shout_die is MAX_DIE, no
\* DRAW once num_shout_draw is MAX_DRAW.
\* ------------------------------------------------------------------------
PolicyActions ==
    {SimpleActionChoiceStrategy(Here, AutoPlayer, below_70) :
        below_70 \in BOOLEAN} \ {ZeroDivisionError}

C40_PolicyActionsValid ==
    ShoutPhase =>
        \A action \in PolicyActions :
            \/ action = NoAction
            \/ action \in valid_actions(player[AutoPlayer], Round)
====
